---- MODULE Spec2Model ----
(***************************************************************************)
(* Attendance backend: the request handlers of the batch, division,        *)
(* session, session-type, attendance and auth controllers, run against the *)
(* relational store.  One action is one whole request; the concurrent      *)
(* specifications split a request at its awaits, and pending holds what a  *)
(* request in flight has read so far.                                      *)
(*                                                                         *)
(* Conventions.  An id of 0, the string "" and the empty sequence stand    *)
(* for a request field that is absent (undefined, null or empty): all are  *)
(* falsy to the `x || y` and `if (x)` tests of the handlers.  A verifiedBy *)
(* of 0 is SQL NULL.  A date is the sequence of its characters.            *)
(* batch.controller.js holds three modules one after the other, each with  *)
(* its own require lines: the batch controller (1-164), the session        *)
(* controller (165-500) and the attendance controller (501-1388).          *)
(***************************************************************************)
EXTENDS Integers, Sequences, FiniteSets, TLC

VARIABLES batches, divisions, users, sessionTypes, sessions, attendance,
          nextId, last, pending

vars == <<batches, divisions, users, sessionTypes, sessions, attendance,
          nextId, last, pending>>

(***************************************************************************)
(* Bounds of the model.                                                    *)
(***************************************************************************)
\* longest userIds array of a request
MaxLen == 2
\* auto-increment ceiling of the Attendances table
MaxAttendanceId == 3
\* auto-increment ceiling of the Batches table
MaxBatchId == 3
\* auto-increment ceiling of the Divisions table
MaxDivisionId == 3
\* auto-increment ceiling of the Users table
MaxUserId == 5
\* auto-increment ceiling of the SessionTypes table
MaxSessionTypeId == 4

(***************************************************************************)
(* Request inputs.  9 is the id of no row of any table.                    *)
(***************************************************************************)
D1 == <<"2","0","2","5","-","0","1","-","1","0">>
D2 == <<"2","0","2","5","-","0","1","-","1","1">>
DBad == <<"1","0","/","0","1","/","2","0","2","5">>
SessionIdInputs == {1, 2, 9}
\* date, sessionTypeId and batchId of a POST /api/sessions body
CreateDateInputs == {D2, DBad}
CreateTypeIdInputs == {1, 9}
CreateBatchIdInputs == {1, 2, 9}
\* date, sessionTypeId and batchId of a PUT /api/sessions/:id body
UpdateDateInputs == {<< >>, D1, DBad}
UpdateTypeIdInputs == {0, 2, 9}
UpdateBatchIdInputs == {0, 1, 9}
\* batchId of a PUT /api/sessions/:id body that gives nothing else
MoveBatchIdInputs == {0, 2, 9}
SessionTypeIdInputs == {1, 2, 9}
SessionStatusInputs == {"", "completed", "postponed"}
\* status of a PUT /api/sessions/:id body that gives nothing else
StatusOnlyInputs ==
  {"scheduled", "in-progress", "completed", "cancelled", "postponed", "done"}
AttendanceStatusInputs == {"", "present", "sick"}
NotesInputs == {"", "note"}
\* req.user.id: the staff account
Actors == {3}
UserIdInputs == {1, 2}
BatchNameInputs == {"", "B"}
BatchYearInputs == {0, 2024, 2025}
DivisionNameInputs == {"", "X", "Y"}
EmailInputs == {"e1", "e5"}
RoleInputs == {""}
RegisterBatchIdInputs == {0, 2, 9}
RegisterDivisionIdInputs == {0, 2}
BatchIdInputs == (1..MaxBatchId) \cup {9}
DivisionIdInputs == (1..MaxDivisionId) \cup {9}

\* :id of PUT /api/attendance/:id and the id of an attendanceData item
AttendanceIdInputs == {1, 2, 9}
\* status of a PUT /api/attendance/:id body
UpdateStatusInputs == {"", "late", "sick"}
\* an item of an attendanceData array
Item(id, status, notes) == [id |-> id, status |-> status, notes |-> notes]
\* attendanceData of a PUT /api/sessions/:sessionId/attendance body
AttendanceDataInputs ==
  {<< >>,
   <<Item(1, "excused", "note")>>,
   <<Item(2, "excused", "")>>,
   <<Item(9, "excused", ""), Item(1, "excused", "")>>,
   <<Item(2, "late", ""), Item(1, "late", "")>>,
   <<Item(1, "late", ""), Item(1, "excused", "")>>,
   <<Item(1, "excused", ""), Item(2, "sick", "")>>,
   <<Item(1, "", "")>>}

\* name, startTime and endTime of a session-type body, :id of its route
T0800 == <<"0","8",":","0","0">>
T0900 == <<"0","9",":","0","0">>
T1000 == <<"1","0",":","0","0">>
TBad == <<"8",":","0","0">>
CreateTimeInputs == {T0800, T0900, T1000, TBad}
UpdateTimeInputs == {<< >>, T0800, T1000, TBad}
SessionTypeNameInputs == {"", "Night"}
UpdateSessionTypeIdInputs == {1, 3, 9}

\* startDate, endDate, batchId, divisionId and sessionTypeId of a query string
QueryDateInputs == {<< >>, D1, D2}
QueryBatchIdInputs == {0, 1, 2}
QueryDivisionIdInputs == {0, 1}
QueryTypeIdInputs == {0, 1}

RECURSIVE SeqsUpTo(_, _)
SeqsUpTo(S, n) ==
  IF n = 0 THEN {<< >>}
  ELSE LET shorter == SeqsUpTo(S, n - 1)
       IN shorter \cup {Append(q, x) : q \in {r \in shorter : Len(r) = n - 1}, x \in S}

UserIdsInputs == SeqsUpTo(UserIdInputs, MaxLen)

(***************************************************************************)
(* Array helpers of the handlers.                                          *)
(***************************************************************************)
Range(q) == {q[i] : i \in 1..Len(q)}

\* Array.prototype.filter
RECURSIVE Filter(_, _)
Filter(q, keep) ==
  IF q = << >> THEN << >>
  ELSE IF Head(q) \in keep THEN <<Head(q)>> \o Filter(Tail(q), keep)
       ELSE Filter(Tail(q), keep)

\* the rows of a set in primary-key order, as findAll returns them
RECURSIVE RowsById(_)
RowsById(S) ==
  IF S = {} THEN << >>
  ELSE LET r == CHOOSE x \in S : \A y \in S : x.id <= y.id
       IN <<r>> \o RowsById(S \ {r})

(***************************************************************************)
(* Models.                                                                 *)
(***************************************************************************)
Digits == {"0","1","2","3","4","5","6","7","8","9"}

\* /^\d{4}-\d{2}-\d{2}$/.test(date)
dateRegex(date) ==
  /\ Len(date) = 10
  /\ \A i \in {1, 2, 3, 4, 6, 7, 9, 10} : date[i] \in Digits
  /\ date[5] = "-"
  /\ date[8] = "-"

\* attributes of Session declared allowNull: false
SessionNotNull ==
  {"date", "startTime", "endTime", "sessionTypeId", "batchId", "divisionId"}

\* Session.create(values): the model validation rejects a missing
\* allowNull: false attribute before any INSERT is sent.
SessionCreateValid(values) == SessionNotNull \subseteq DOMAIN values

SessionRow(id, values) ==
  [id |-> id, date |-> values.date, startTime |-> values.startTime,
   endTime |-> values.endTime, sessionTypeId |-> values.sessionTypeId,
   batchId |-> values.batchId, divisionId |-> values.divisionId,
   status |-> values.status]

\* a faulty variant of validSessionStatuses: one value more than the ENUM has
validSessionStatusesOpen ==
  {"scheduled", "in-progress", "completed", "cancelled", "postponed"}

\* const validStatuses = ['scheduled', 'in-progress', 'completed', 'cancelled']
validSessionStatuses == {"scheduled", "in-progress", "completed", "cancelled"}
\* a faulty variant of validStatuses: one value more than the ENUM has
validStatusesWithSick == {"present", "absent", "late", "excused", "sick"}

\* const validStatuses = ['present', 'absent', 'late', 'excused']
validStatuses == {"present", "absent", "late", "excused"}

\* a faulty variant of AttendanceRow: the verifier is not stored
AttendanceRowUnverified(id, sessionId, userId, status, notes, verifiedBy) ==
  [id |-> id, sessionId |-> sessionId, userId |-> userId, status |-> status,
   notes |-> notes, verifiedBy |-> 0]

AttendanceRow(id, sessionId, userId, status, notes, verifiedBy) ==
  [id |-> id, sessionId |-> sessionId, userId |-> userId, status |-> status,
   notes |-> notes, verifiedBy |-> verifiedBy]

\* Attendance.bulkCreate(records): one INSERT, the rows get consecutive ids
RECURSIVE BulkCreateRows(_, _, _, _, _, _)
BulkCreateRows(firstId, sessionId, userIds, status, notes, verifiedBy) ==
  IF userIds = << >> THEN {}
  ELSE {AttendanceRow(firstId, sessionId, Head(userIds), status, notes, verifiedBy)}
       \cup BulkCreateRows(firstId + 1, sessionId, Tail(userIds), status, notes, verifiedBy)

\* a faulty variant of SantriIdsOf: the where clause names the role only
SantriIdsOfAnyBatch(batchId) ==
  LET rows == RowsById({u \in users : u.role = "santri"})
  IN [i \in 1..Len(rows) |-> rows[i].id]

\* User.findAll({ where: { batchId, role: 'santri' } }), ids in key order
SantriIdsOf(batchId) ==
  LET rows == RowsById({u \in users : u.batchId = batchId /\ u.role = "santri"})
  IN [i \in 1..Len(rows) |-> rows[i].id]

\* names the session controller module can refer to
SessionControllerScope == {"Session", "SessionType", "Attendance", "User", "Batch", "Op"}
\* names the attendance controller module can refer to
AttendanceControllerScope == {"Attendance", "Session", "User", "SessionType", "Batch", "Op"}
\* names the batch controller module can refer to
BatchControllerScope == {"Batch", "User"}
\* names the division controller module can refer to
DivisionControllerScope == {"Division", "User", "Op"}

(***************************************************************************)
(* The store when the server starts serving: two batches, two divisions,   *)
(* four accounts, two session types and two sessions.  Batch 1 has the     *)
(* santri users 1 and 2 and the staff user 3, batch 2 has no user.         *)
(* Session 1 (batch 1) carries the row of user 1, user 2 joined the batch  *)
(* later; session 2 (batch 2) has no row.                                  *)
(***************************************************************************)
\* the requests that can be in flight at once
Requests == {1, 2}
\* no request in flight
Idle == [at |-> "idle"]

Init ==
  /\ batches = {[id |-> 1, name |-> "A", year |-> 2025],
                [id |-> 2, name |-> "B", year |-> 2025]}
  /\ divisions = {[id |-> 1, name |-> "X"], [id |-> 2, name |-> "Y"]}
  /\ users = {[id |-> 1, email |-> "e1", role |-> "santri", batchId |-> 1, divisionId |-> 1],
              [id |-> 2, email |-> "e2", role |-> "santri", batchId |-> 1, divisionId |-> 1],
              [id |-> 3, email |-> "e3", role |-> "staff", batchId |-> 1, divisionId |-> 0],
              [id |-> 4, email |-> "e4", role |-> "admin", batchId |-> 0, divisionId |-> 0]}
  /\ sessionTypes = {[id |-> 1, name |-> "Morning"], [id |-> 2, name |-> "Evening"]}
  /\ sessions = {[id |-> 1, date |-> D1, startTime |-> "07:00", endTime |-> "08:00",
                  sessionTypeId |-> 1, batchId |-> 1, divisionId |-> 1,
                  status |-> "scheduled"],
                 [id |-> 2, date |-> D2, startTime |-> "07:00", endTime |-> "08:00",
                  sessionTypeId |-> 1, batchId |-> 2, divisionId |-> 2,
                  status |-> "scheduled"]}
  /\ attendance = {AttendanceRow(1, 1, 1, "absent", "", 0)}
  /\ nextId = [Batch |-> 3, Division |-> 3, User |-> 5, Session |-> 3, Attendance |-> 2,
               SessionType |-> 3]
  /\ last = [op |-> "none", code |-> 0, msg |-> ""]
  /\ pending = [r \in Requests |-> Idle]

(***************************************************************************)
(* Responses.  last is the request just answered: its handler, the HTTP    *)
(* status, and the message of the body (for a status 500, the name of the  *)
(* error handed to next()).  fail = k makes the k-th store write of a      *)
(* request throw (0: none does).                                           *)
(***************************************************************************)
Response(op, code, msg) == [op |-> op, code |-> code, msg |-> msg]

StoreError == "store error"

(***************************************************************************)
(* Session controller.                                                     *)
(***************************************************************************)
\* Session.findOne({ where: { date, sessionTypeId, batchId } })
ExistingSession(date, sessionTypeId, batchId) ==
  {s \in sessions : s.date = date /\ s.sessionTypeId = sessionTypeId
                    /\ s.batchId = batchId}

\* POST /api/sessions
createSession(date, sessionTypeId, batchId, fail) ==
  LET values == [date |-> date, sessionTypeId |-> sessionTypeId,
                 batchId |-> batchId, notes |-> "", status |-> "scheduled"]
      id == nextId.Session
      santri == SantriIdsOf(batchId)
      reject(code, msg) == /\ last' = Response("createSession", code, msg)
                           /\ UNCHANGED <<sessions, attendance, nextId>>
  IN
  /\ UNCHANGED <<batches, divisions, users, sessionTypes, pending>>
  /\ IF ~dateRegex(date) THEN reject(400, "date format")
     ELSE IF {t \in sessionTypes : t.id = sessionTypeId} = {}
     THEN reject(404, "session type not found")
     ELSE IF {b \in batches : b.id = batchId} = {} THEN reject(404, "batch not found")
     ELSE IF ExistingSession(date, sessionTypeId, batchId) # {}
     THEN reject(400, "session exists")
     ELSE IF ~SessionCreateValid(values) THEN reject(500, "SequelizeValidationError")
     ELSE IF fail = 1 THEN reject(500, StoreError)
     ELSE /\ sessions' = sessions \cup {SessionRow(id, values)}
          /\ IF Len(santri) > 0 /\ fail = 2
             THEN /\ attendance' = attendance
                  /\ nextId' = [nextId EXCEPT !.Session = id + 1]
                  /\ last' = Response("createSession", 500, StoreError)
             ELSE /\ attendance' = attendance \cup
                       BulkCreateRows(nextId.Attendance, id, santri, "absent", "", 0)
                  /\ nextId' = [nextId EXCEPT !.Session = id + 1,
                                              !.Attendance = @ + Len(santri)]
                  /\ last' = Response("createSession", 201, "")

\* a faulty variant of DuplicateSession: Op.eq in place of Op.ne
DuplicateSessionSameId(id, date, sessionTypeId, batchId) ==
  {s \in sessions : s.id = id /\ s.date = date /\ s.sessionTypeId = sessionTypeId
                    /\ s.batchId = batchId}

\* a faulty variant of DuplicateSession: the query without id: { [Op.ne]: id }
DuplicateSessionAnyId(id, date, sessionTypeId, batchId) ==
  {s \in sessions : s.date = date /\ s.sessionTypeId = sessionTypeId
                    /\ s.batchId = batchId}

\* Session.findOne({ where: { id: { [Op.ne]: id }, date, sessionTypeId, batchId } })
DuplicateSession(id, date, sessionTypeId, batchId) ==
  {s \in sessions : s.id # id /\ s.date = date /\ s.sessionTypeId = sessionTypeId
                    /\ s.batchId = batchId}

\* PUT /api/sessions/:id
updateSession(id, date, sessionTypeId, batchId, status, fail) ==
  LET found == {s \in sessions : s.id = id}
      session == CHOOSE s \in found : TRUE
      newDate == IF date # << >> THEN date ELSE session.date
      newSessionTypeId == IF sessionTypeId # 0 THEN sessionTypeId ELSE session.sessionTypeId
      newBatchId == IF batchId # 0 THEN batchId ELSE session.batchId
      \* session.update(...) assigns the values to the instance and returns it
      updated == [session EXCEPT !.date = newDate,
                                 !.sessionTypeId = newSessionTypeId,
                                 !.batchId = newBatchId,
                                 !.status = IF status # "" THEN status ELSE session.status]
      kept == {a \in attendance : a.sessionId # id}
      santri == SantriIdsOf(batchId)
      reject(code, msg) == /\ last' = Response("updateSession", code, msg)
                           /\ UNCHANGED <<sessions, attendance, nextId>>
  IN
  /\ UNCHANGED <<batches, divisions, users, sessionTypes, pending>>
  /\ IF found = {} THEN reject(404, "session not found")
     ELSE IF date # << >> /\ ~dateRegex(date) THEN reject(400, "date format")
     ELSE IF sessionTypeId # 0 /\ {t \in sessionTypes : t.id = sessionTypeId} = {}
     THEN reject(404, "session type not found")
     ELSE IF batchId # 0 /\ {b \in batches : b.id = batchId} = {}
     THEN reject(404, "batch not found")
     ELSE IF /\ (date # << >> \/ sessionTypeId # 0 \/ batchId # 0)
             /\ DuplicateSession(id, newDate, newSessionTypeId, newBatchId) # {}
     THEN reject(400, "session exists")
     ELSE IF status # "" /\ status \notin validSessionStatuses THEN reject(400, "status")
     ELSE IF fail = 1 THEN reject(500, StoreError)
     ELSE /\ sessions' = (sessions \ {session}) \cup {updated}
          \* the test reads batchId off the instance that was just updated
          /\ IF batchId # 0 /\ batchId # updated.batchId
             THEN IF fail = 2
                  THEN /\ last' = Response("updateSession", 500, StoreError)
                       /\ UNCHANGED <<attendance, nextId>>
                  ELSE IF Len(santri) > 0 /\ fail = 3
                  THEN /\ attendance' = kept
                       /\ last' = Response("updateSession", 500, StoreError)
                       /\ UNCHANGED nextId
                  ELSE /\ attendance' = kept \cup
                            BulkCreateRows(nextId.Attendance, id, santri, "absent", "", 0)
                       /\ nextId' = [nextId EXCEPT !.Attendance = @ + Len(santri)]
                       /\ last' = Response("updateSession", 200, "")
             ELSE /\ last' = Response("updateSession", 200, "")
                  /\ UNCHANGED <<attendance, nextId>>

\* a faulty variant of deleteSession: the Session row destroyed before its rows
deleteSessionRowFirst(id, fail) ==
  LET found == {s \in sessions : s.id = id}
  IN
  /\ UNCHANGED <<batches, divisions, users, sessionTypes, nextId, pending>>
  /\ IF found = {}
     THEN /\ last' = Response("deleteSession", 404, "session not found")
          /\ UNCHANGED <<sessions, attendance>>
     ELSE IF fail = 1
     THEN /\ last' = Response("deleteSession", 500, StoreError)
          /\ UNCHANGED <<sessions, attendance>>
     ELSE /\ sessions' = sessions \ found
          /\ IF fail = 2
             THEN /\ last' = Response("deleteSession", 500, StoreError)
                  /\ UNCHANGED attendance
             ELSE /\ attendance' = {a \in attendance : a.sessionId # id}
                  /\ last' = Response("deleteSession", 200, "")

\* DELETE /api/sessions/:id
deleteSession(id, fail) ==
  LET found == {s \in sessions : s.id = id}
  IN
  /\ UNCHANGED <<batches, divisions, users, sessionTypes, nextId, pending>>
  /\ IF found = {}
     THEN /\ last' = Response("deleteSession", 404, "session not found")
          /\ UNCHANGED <<sessions, attendance>>
     ELSE IF fail = 1
     THEN /\ last' = Response("deleteSession", 500, StoreError)
          /\ UNCHANGED <<sessions, attendance>>
     ELSE /\ attendance' = {a \in attendance : a.sessionId # id}
          /\ IF fail = 2
             THEN /\ last' = Response("deleteSession", 500, StoreError)
                  /\ UNCHANGED sessions
             ELSE /\ sessions' = sessions \ found
                  /\ last' = Response("deleteSession", 200, "")

(***************************************************************************)
(* Attendance controller.                                                  *)
(***************************************************************************)
\* a faulty variant of NewUserIds: the requested ids, not filtered
NewUserIdsUnfiltered(att, sessionId, userIds) == userIds

\* a faulty variant of NewUserIds: the lookup sees rows still absent only
NewUserIdsAbsentOnly(att, sessionId, userIds) ==
  LET existingRecords == {a \in att : a.sessionId = sessionId
                                      /\ a.userId \in Range(userIds)
                                      /\ a.status = "absent"}
      existingUserIds == {a.userId : a \in existingRecords}
  IN Filter(userIds, Range(userIds) \ existingUserIds)

\* Attendance.findAll({ where: { sessionId, userId: { [Op.in]: userIds } } }),
\* then userIds.filter(id => !existingUserIds.includes(id))
NewUserIds(att, sessionId, userIds) ==
  LET existingRecords == {a \in att : a.sessionId = sessionId
                                      /\ a.userId \in Range(userIds)}
      existingUserIds == {a.userId : a \in existingRecords}
  IN Filter(userIds, Range(userIds) \ existingUserIds)

\* What a createAttendanceRecords request answers and leaves in the table
\* att, whose next id is firstId
CreateRecordsOutcome(att, firstId, sessionId, userIds, defaultStatus, actor, fail) ==
  LET status == IF defaultStatus # "" THEN defaultStatus ELSE "absent"
      newUserIds == NewUserIds(att, sessionId, userIds)
      reject(code, msg) == [code |-> code, msg |-> msg, attendance |-> att, created |-> 0]
  IN IF Len(userIds) = 0 THEN reject(400, "userIds")
     ELSE IF {s \in sessions : s.id = sessionId} = {} THEN reject(404, "session not found")
     ELSE IF status \notin validStatuses THEN reject(400, "status")
     ELSE IF Len(newUserIds) = 0 THEN reject(400, "all have records")
     ELSE IF fail = 1 THEN reject(500, StoreError)
     ELSE [code |-> 201, msg |-> "",
           attendance |-> att \cup
             BulkCreateRows(firstId, sessionId, newUserIds, status, "", actor),
           created |-> Len(newUserIds)]

\* POST /api/sessions/:sessionId/attendance
createAttendanceRecords(sessionId, userIds, defaultStatus, actor, fail) ==
  LET out == CreateRecordsOutcome(attendance, nextId.Attendance, sessionId, userIds,
                                  defaultStatus, actor, fail)
  IN
  /\ nextId.Attendance + Len(userIds) - 1 <= MaxAttendanceId
  /\ UNCHANGED <<batches, divisions, users, sessionTypes, sessions, pending>>
  /\ attendance' = out.attendance
  /\ nextId' = [nextId EXCEPT !.Attendance = @ + out.created]
  /\ last' = Response("createAttendanceRecords", out.code, out.msg)

\* the property an include of { model: Batch } puts on a loaded Session
SessionIncludeKeys == {"Batch"}

\* What a generateAttendanceForBatch request answers and leaves in the
\* table att, whose next id is firstId
GenerateOutcome(att, firstId, sessionId, defaultStatus, actor, fail) ==
  LET found == {s \in sessions : s.id = sessionId}
      session == CHOOSE s \in found : TRUE
      status == IF defaultStatus # "" THEN defaultStatus ELSE "absent"
      userIds == SantriIdsOf(session.batchId)
      newUsers == NewUserIds(att, sessionId, userIds)
      \* the messages read session.batch.name
      batchName == "batch" \in SessionIncludeKeys
      reject(code, msg) == [code |-> code, msg |-> msg, attendance |-> att, created |-> 0]
  IN IF found = {} THEN reject(404, "session not found")
     ELSE IF session.batchId = 0 THEN reject(400, "no batch")
     ELSE IF status \notin validStatuses THEN reject(400, "status")
     ELSE IF Len(userIds) = 0
     THEN IF batchName THEN reject(404, "no users") ELSE reject(500, "TypeError")
     ELSE IF Len(newUsers) = 0 THEN reject(400, "all have records")
     ELSE IF fail = 1 THEN reject(500, StoreError)
     ELSE [code |-> IF batchName THEN 201 ELSE 500,
           msg |-> IF batchName THEN "" ELSE "TypeError",
           attendance |-> att \cup
             BulkCreateRows(firstId, sessionId, newUsers, status, "", actor),
           created |-> Len(newUsers)]

\* POST /api/sessions/:sessionId/generate-attendance
generateAttendanceForBatch(sessionId, defaultStatus, actor, fail) ==
  LET out == GenerateOutcome(attendance, nextId.Attendance, sessionId,
                             defaultStatus, actor, fail)
  IN
  /\ nextId.Attendance + out.created - 1 <= MaxAttendanceId
  /\ UNCHANGED <<batches, divisions, users, sessionTypes, sessions, pending>>
  /\ attendance' = out.attendance
  /\ nextId' = [nextId EXCEPT !.Attendance = @ + out.created]
  /\ last' = Response("generateAttendanceForBatch", out.code, out.msg)

\* sequelize.transaction(async t => ...): the writes of the callback are
\* committed together, or rolled back together when the callback throws
Transaction(before, after, thrown) == IF thrown THEN before ELSE after

\* a faulty variant of BulkFilteredOutcome: the loaded records are saved as they
\* are changed, before the transaction is asked for
BulkFilteredSavedEarly(att, firstId, sessionId, userIds, status, notes, actor, fail) ==
  LET existingRecords == {a \in att : a.sessionId = sessionId
                                      /\ a.userId \in Range(userIds)}
      recordsToUpdate ==
        {[a EXCEPT !.status = status,
                   !.notes = IF notes # "" THEN notes ELSE a.notes,
                   !.verifiedBy = actor] : a \in existingRecords}
  IN [code |-> 500, msg |-> "ReferenceError",
      attendance |-> (att \ existingRecords) \cup recordsToUpdate, created |-> 0]

\* What a filtered-attendance request that passed validation answers and
\* leaves in the table: the rows loaded and changed in memory, then the
\* transaction.
BulkFilteredOutcome(att, firstId, sessionId, userIds, status, notes, actor, fail) ==
  LET existingRecords == {a \in att : a.sessionId = sessionId
                                      /\ a.userId \in Range(userIds)}
      recordsToUpdate ==
        {[a EXCEPT !.status = status,
                   !.notes = IF notes # "" THEN notes ELSE a.notes,
                   !.verifiedBy = actor] : a \in existingRecords}
      newUserIds == NewUserIds(att, sessionId, userIds)
      recordsToCreate == BulkCreateRows(firstId, sessionId, newUserIds, status, notes, actor)
      \* one save per loaded record, then one bulkCreate when there is a new row
      writes == Cardinality(recordsToUpdate) + (IF Len(newUserIds) > 0 THEN 1 ELSE 0)
      thrown == fail \in 1..writes
      written == (att \ existingRecords) \cup recordsToUpdate \cup recordsToCreate
  IN
  IF "sequelize" \notin AttendanceControllerScope
  THEN [code |-> 500, msg |-> "ReferenceError", attendance |-> att, created |-> 0]
  ELSE [code |-> IF thrown THEN 500 ELSE 200,
        msg |-> IF thrown THEN StoreError ELSE "",
        attendance |-> Transaction(att, written, thrown),
        created |-> IF thrown THEN 0 ELSE Len(newUserIds)]

\* POST /api/sessions/:sessionId/filtered-attendance
bulkCreateUpdateFilteredAttendance(sessionId, userIds, status, notes, actor, fail) ==
  LET out == BulkFilteredOutcome(attendance, nextId.Attendance, sessionId, userIds,
                                 status, notes, actor, fail)
      reject(code, msg) ==
        /\ last' = Response("bulkCreateUpdateFilteredAttendance", code, msg)
        /\ UNCHANGED <<attendance, nextId>>
  IN
  /\ nextId.Attendance + Len(userIds) - 1 <= MaxAttendanceId
  /\ UNCHANGED <<batches, divisions, users, sessionTypes, sessions, pending>>
  /\ IF Len(userIds) = 0 THEN reject(400, "userIds")
     ELSE IF {s \in sessions : s.id = sessionId} = {} THEN reject(404, "session not found")
     ELSE IF status \notin validStatuses THEN reject(400, "status")
     ELSE /\ attendance' = out.attendance
          /\ nextId' = [nextId EXCEPT !.Attendance = @ + out.created]
          /\ last' = Response("bulkCreateUpdateFilteredAttendance", out.code, out.msg)

\* a faulty variant of validStatusesIncludes: if (status && !validStatuses.includes(status))
validStatusesIncludesIfGiven(status) == status = "" \/ status \in validStatuses

\* validStatuses.includes(status)
validStatusesIncludes(status) == status \in validStatuses

\* PUT /api/attendance/:id
updateAttendance(id, status, notes, actor, fail) ==
  LET found == {a \in attendance : a.id = id}
      record == CHOOSE a \in found : TRUE
      updated == [record EXCEPT !.status = status,
                                !.notes = IF notes # "" THEN notes ELSE record.notes,
                                !.verifiedBy = actor]
      reject(code, msg) == /\ last' = Response("updateAttendance", code, msg)
                           /\ UNCHANGED attendance
  IN
  /\ UNCHANGED <<batches, divisions, users, sessionTypes, sessions, nextId, pending>>
  /\ IF found = {} THEN reject(404, "attendance not found")
     ELSE IF ~validStatusesIncludes(status) THEN reject(400, "status")
     ELSE IF fail = 1 THEN reject(500, StoreError)
     ELSE /\ attendance' = (attendance \ found) \cup {updated}
          /\ last' = Response("updateAttendance", 200, "")

\* a faulty variant of FindAttendance: where: { id: item.id }
FindAttendanceAnySession(att, id, sessionId) == {a \in att : a.id = id}

\* Attendance.findOne({ where: { id: item.id, sessionId } })
FindAttendance(att, id, sessionId) ==
  {a \in att : a.id = id /\ a.sessionId = sessionId}

\* a faulty variant of UpdateLoop: the updates made before one that throws
\* are undone, as inside a transaction
RECURSIVE UpdateLoopInTransaction(_, _, _, _, _)
UpdateLoopInTransaction(att, sessionId, attendanceData, actor, fail) ==
  IF attendanceData = << >> THEN [attendance |-> att, thrown |-> FALSE]
  ELSE LET item == Head(attendanceData)
           found == {a \in att : a.id = item.id /\ a.sessionId = sessionId}
           record == CHOOSE a \in found : TRUE
           updated == [record EXCEPT !.status = item.status,
                                     !.notes = IF item.notes # "" THEN item.notes
                                               ELSE record.notes,
                                     !.verifiedBy = actor]
       IN IF found = {}
          THEN UpdateLoopInTransaction(att, sessionId, Tail(attendanceData), actor, fail)
          ELSE IF fail = 1 THEN [attendance |-> att, thrown |-> TRUE]
          ELSE LET rest == UpdateLoopInTransaction((att \ found) \cup {updated},
                             sessionId, Tail(attendanceData), actor,
                             IF fail > 1 THEN fail - 1 ELSE 0)
               IN IF rest.thrown THEN [attendance |-> att, thrown |-> TRUE] ELSE rest

\* the update loop of bulkUpdateAttendance: one findOne and, for a row
\* found, one update per item, in the order of the array; the updates
\* before one that throws stay
RECURSIVE UpdateLoop(_, _, _, _, _)
UpdateLoop(att, sessionId, attendanceData, actor, fail) ==
  IF attendanceData = << >> THEN [attendance |-> att, thrown |-> FALSE]
  ELSE LET item == Head(attendanceData)
           found == FindAttendance(att, item.id, sessionId)
           record == CHOOSE a \in found : TRUE
           updated == [record EXCEPT !.status = item.status,
                                     !.notes = IF item.notes # "" THEN item.notes
                                               ELSE record.notes,
                                     !.verifiedBy = actor]
       IN IF found = {}
          THEN UpdateLoop(att, sessionId, Tail(attendanceData), actor, fail)
          ELSE IF fail = 1 THEN [attendance |-> att, thrown |-> TRUE]
          ELSE UpdateLoop((att \ found) \cup {updated}, sessionId,
                          Tail(attendanceData), actor,
                          IF fail > 1 THEN fail - 1 ELSE 0)

\* PUT /api/sessions/:sessionId/attendance
bulkUpdateAttendance(sessionId, attendanceData, actor, fail) ==
  LET items == Range(attendanceData)
      out == UpdateLoop(attendance, sessionId, attendanceData, actor, fail)
      reject(code, msg) == /\ last' = Response("bulkUpdateAttendance", code, msg)
                           /\ UNCHANGED attendance
  IN
  /\ UNCHANGED <<batches, divisions, users, sessionTypes, sessions, nextId, pending>>
  /\ IF Len(attendanceData) = 0 THEN reject(400, "attendanceData")
     ELSE IF {s \in sessions : s.id = sessionId} = {} THEN reject(404, "session not found")
     \* the first item at fault decides the message
     ELSE IF \E i \in items : i.id = 0 \/ i.status = "" \/ i.status \notin validStatuses
     THEN LET k == CHOOSE j \in 1..Len(attendanceData) :
                     /\ LET i == attendanceData[j]
                        IN i.id = 0 \/ i.status = "" \/ i.status \notin validStatuses
                     /\ \A h \in 1..(j - 1) :
                          LET i == attendanceData[h]
                          IN ~(i.id = 0 \/ i.status = "" \/ i.status \notin validStatuses)
              first == attendanceData[k]
          IN IF first.id = 0 \/ first.status = ""
             THEN reject(400, "id and status") ELSE reject(400, "status")
     ELSE /\ attendance' = out.attendance
          /\ last' = IF out.thrown THEN Response("bulkUpdateAttendance", 500, StoreError)
                     ELSE Response("bulkUpdateAttendance", 200, "")

(***************************************************************************)
(* Attendance statistics and reports.  A rate is the exact fraction        *)
(* num / den of its value in percent.                                      *)
(***************************************************************************)
\* a response with a data object
DataResponse(op, code, msg, data) ==
  [op |-> op, code |-> code, msg |-> msg, data |-> data]

DigitValue(c) ==
  CHOOSE n \in 0..9 : <<"0","1","2","3","4","5","6","7","8","9">>[n + 1] = c

\* a <= b of two DATEONLY values written YYYY-MM-DD
RECURSIVE DateLeq(_, _)
DateLeq(a, b) ==
  IF a = << >> \/ b = << >> THEN TRUE
  ELSE IF Head(a) = Head(b) THEN DateLeq(Tail(a), Tail(b))
  ELSE DigitValue(Head(a)) < DigitValue(Head(b))

\* Session.findAll({ where: sessionWhereClause }): date >= startDate and
\* date <= endDate when given, batchId and sessionTypeId when given
SessionsWhere(startDate, endDate, batchId, sessionTypeId) ==
  {x \in sessions :
     /\ (startDate # << >>) => DateLeq(startDate, x.date)
     /\ (endDate # << >>) => DateLeq(x.date, endDate)
     /\ (batchId # 0) => (x.batchId = batchId)
     /\ (sessionTypeId # 0) => (x.sessionTypeId = sessionTypeId)}

\* a faulty variant of ToFixed2: the digits after the second cut off
ToFixed2Truncated(num, den) == (num * 100) \div den

\* parseFloat((num / den).toFixed(2)), in hundredths: the nearest, the
\* larger one of two
ToFixed2(num, den) == (2 * num * 100 + den) \div (2 * den)

\* ((present + late) / total) * 100 when total > 0, else 0
AttendanceRate(present, late, total) ==
  IF total > 0 THEN [num |-> (present + late) * 100, den |-> total]
  ELSE [num |-> 0, den |-> 1]

\* Attendance.count({ where: { sessionId: { [Op.in]: sessionIds }, status } })
CountStatus(rows, status) == Cardinality({a \in rows : a.status = status})

\* the data object of getAttendanceStats
StatsData(startDate, endDate, batchId) ==
  LET matching == SessionsWhere(startDate, endDate, batchId, 0)
      sessionIds == {x.id : x \in matching}
      rows == {a \in attendance : a.sessionId \in sessionIds}
      totalAttendanceRecords == Cardinality(rows)
      presentCount == CountStatus(rows, "present")
      lateCount == CountStatus(rows, "late")
      attendanceRate == AttendanceRate(presentCount, lateCount, totalAttendanceRecords)
  IN IF sessionIds = {}
     THEN [totalSessions |-> 0, totalAttendanceRecords |-> 0,
           statusCounts |-> [present |-> 0, absent |-> 0, late |-> 0, excused |-> 0],
           attendanceRate |-> [num |-> 0, den |-> 100]]
     ELSE [totalSessions |-> Cardinality(matching),
           totalAttendanceRecords |-> totalAttendanceRecords,
           statusCounts |-> [present |-> presentCount,
                             absent |-> CountStatus(rows, "absent"),
                             late |-> lateCount,
                             excused |-> CountStatus(rows, "excused")],
           attendanceRate |-> [num |-> ToFixed2(attendanceRate.num, attendanceRate.den),
                               den |-> 100]]

\* GET /api/attendance/stats
getAttendanceStats(startDate, endDate, batchId) ==
  /\ UNCHANGED <<batches, divisions, users, sessionTypes, sessions, attendance, nextId, pending>>
  /\ last' = DataResponse("getAttendanceStats", 200, "",
                          StatsData(startDate, endDate, batchId))

\* the properties include: [{ model: SessionType }, { model: Batch }] puts
\* on a loaded Session, and [{ model: Batch }, { model: Division }] on a User
ReportSessionIncludeKeys == {"SessionType", "Batch"}
ReportUserIncludeKeys == {"Batch", "Division"}

\* one entry of byBatch, byDivision or bySessionType: the counters of the
\* records the forEach adds to the group
GroupEntry(id, records) ==
  [id |-> id,
   totalRecords |-> Cardinality(records),
   present |-> CountStatus(records, "present"),
   absent |-> CountStatus(records, "absent"),
   late |-> CountStatus(records, "late"),
   excused |-> CountStatus(records, "excused")]

\* the statistics of getAttendanceReports: the rows of the matching
\* sessions and of the santri users (of the division, when one is given),
\* the rate not rounded; a group is made for a session that has
\* session.batch or session.sessionType, and for a user that has user.division
ReportStatistics(matching, divisionId) ==
  LET reportUsers == {u \in users : u.role = "santri"
                                    /\ (divisionId # 0 => u.divisionId = divisionId)}
      attendanceRecords == {a \in attendance : /\ a.sessionId \in {x.id : x \in matching}
                                               /\ a.userId \in {u.id : u \in reportUsers}}
      present == CountStatus(attendanceRecords, "present")
      late == CountStatus(attendanceRecords, "late")
      batchIds == IF "batch" \in ReportSessionIncludeKeys
                  THEN {x.batchId : x \in matching} ELSE {}
      typeIds == IF "sessionType" \in ReportSessionIncludeKeys
                 THEN {x.sessionTypeId : x \in matching} ELSE {}
      divisionIds == IF "division" \in ReportUserIncludeKeys
                     THEN {u.divisionId : u \in reportUsers} \ {0} ELSE {}
  IN [totalSessions |-> Cardinality(matching),
      totalUsers |-> Cardinality(reportUsers),
      totalRecords |-> Cardinality(attendanceRecords),
      byStatus |-> [present |-> present,
                    absent |-> CountStatus(attendanceRecords, "absent"),
                    late |-> late,
                    excused |-> CountStatus(attendanceRecords, "excused")],
      byBatch |-> {GroupEntry(id, {a \in attendanceRecords :
                                     \E x \in matching : /\ x.id = a.sessionId
                                                         /\ x.batchId = id})
                     : id \in batchIds},
      byDivision |-> {GroupEntry(id, {a \in attendanceRecords :
                                        \E u \in reportUsers : /\ u.id = a.userId
                                                               /\ u.divisionId = id})
                        : id \in divisionIds},
      bySessionType |-> {GroupEntry(id, {a \in attendanceRecords :
                                           \E x \in matching : /\ x.id = a.sessionId
                                                               /\ x.sessionTypeId = id})
                           : id \in typeIds},
      attendanceRate |-> AttendanceRate(present, late, Cardinality(attendanceRecords))]

\* GET /api/attendance/reports
getAttendanceReports(startDate, endDate, batchId, divisionId, sessionTypeId) ==
  LET matching == SessionsWhere(startDate, endDate, batchId, sessionTypeId)
  IN
  /\ UNCHANGED <<batches, divisions, users, sessionTypes, sessions, attendance, nextId, pending>>
  /\ IF matching = {}
     \* data: { sessions: [], statistics: {} }
     THEN last' = Response("getAttendanceReports", 200, "no sessions")
     \* User.findAll({ include: [{ model: Batch }, { model: Division }] })
     ELSE IF "Division" \notin AttendanceControllerScope
     THEN last' = Response("getAttendanceReports", 500, "ReferenceError")
     ELSE last' = DataResponse("getAttendanceReports", 200, "",
                               ReportStatistics(matching, divisionId))

\* attributes the SessionType model defines
SessionTypeAttributes == {"name", "description", "displayOrder", "isActive"}

\* /^([01]\d|2[0-3]):([0-5]\d)$/
timeRegex(t) ==
  /\ Len(t) = 5
  /\ \/ t[1] \in {"0", "1"} /\ t[2] \in Digits
     \/ t[1] = "2" /\ t[2] \in {"0", "1", "2", "3"}
  /\ t[3] = ":"
  /\ t[4] \in {"0", "1", "2", "3", "4", "5"}
  /\ t[5] \in Digits

\* a >= b of two strings that passed timeRegex
TimeGeq(a, b) == DateLeq(b, a)

\* POST /api/session-types.  The findOne filters on startTime and endTime,
\* which the model does not define: the query fails when the table has no
\* such columns (timeColumns FALSE), and otherwise finds no row, since
\* create writes the attributes of the model only and leaves them NULL.
createSessionType(name, startTime, endTime, timeColumns) ==
  LET values == [n \in {"name", "startTime", "endTime"} \cap SessionTypeAttributes |->
                   IF n = "name" THEN name ELSE IF n = "startTime" THEN startTime
                   ELSE endTime]
      reject(code, msg) == /\ last' = Response("createSessionType", code, msg)
                           /\ UNCHANGED <<sessionTypes, nextId>>
  IN
  /\ nextId.SessionType <= MaxSessionTypeId
  /\ UNCHANGED <<batches, divisions, users, sessions, attendance, pending>>
  /\ IF ~timeRegex(startTime) \/ ~timeRegex(endTime) THEN reject(400, "time format")
     ELSE IF TimeGeq(startTime, endTime) THEN reject(400, "end after start")
     ELSE IF ~timeColumns THEN reject(500, "SequelizeDatabaseError")
     ELSE IF values.name = "" THEN reject(500, "SequelizeValidationError")
     ELSE /\ sessionTypes' = sessionTypes \cup
               {[id |-> nextId.SessionType] @@ values}
          /\ nextId' = [nextId EXCEPT !.SessionType = @ + 1]
          /\ last' = Response("createSessionType", 201, "")

\* PUT /api/session-types/:id.  sessionType.startTime and .endTime are
\* undefined on the loaded instance; a comparison with undefined is false,
\* and a where value of undefined makes findOne throw.
updateSessionType(id, name, startTime, endTime, timeColumns) ==
  LET found == {t \in sessionTypes : t.id = id}
      sessionType == CHOOSE t \in found : TRUE
      reject(code, msg) == /\ last' = Response("updateSessionType", code, msg)
                           /\ UNCHANGED sessionTypes
  IN
  /\ UNCHANGED <<batches, divisions, users, sessions, attendance, nextId, pending>>
  /\ IF found = {} THEN reject(404, "session type not found")
     ELSE IF \/ (startTime # << >> /\ ~timeRegex(startTime))
             \/ (endTime # << >> /\ ~timeRegex(endTime))
     THEN reject(400, "time format")
     ELSE IF startTime # << >> /\ endTime # << >> /\ TimeGeq(startTime, endTime)
     THEN reject(400, "end after start")
     ELSE IF (startTime # << >> \/ endTime # << >>)
             /\ (startTime = << >> \/ endTime = << >>)
     THEN reject(500, "invalid undefined value")
     ELSE IF (startTime # << >> \/ endTime # << >>) /\ ~timeColumns
     THEN reject(500, "SequelizeDatabaseError")
     ELSE /\ sessionTypes' = (sessionTypes \ found) \cup
               {[sessionType EXCEPT !.name = IF name # "" THEN name ELSE @]}
          /\ last' = Response("updateSessionType", 200, "")

(***************************************************************************)
(* Session type controller.                                                *)
(***************************************************************************)
\* a faulty variant of SessionCount: where: { id } for where: { sessionTypeId }
SessionCountById(sessionTypeId) ==
  Cardinality({s \in sessions : s.id = sessionTypeId})

\* Session.count({ where: { sessionTypeId } })
SessionCount(sessionTypeId) ==
  Cardinality({s \in sessions : s.sessionTypeId = sessionTypeId})

\* DELETE /api/session-types/:id
deleteSessionType(id) ==
  LET found == {t \in sessionTypes : t.id = id}
      reject(code, msg) == /\ last' = Response("deleteSessionType", code, msg)
                           /\ UNCHANGED sessionTypes
  IN
  /\ UNCHANGED <<batches, divisions, users, sessions, attendance, nextId, pending>>
  /\ IF found = {} THEN reject(404, "session type not found")
     ELSE IF SessionCount(id) > 0 THEN reject(400, "has sessions")
     ELSE /\ sessionTypes' = sessionTypes \ found
          /\ last' = Response("deleteSessionType", 200, "")

(***************************************************************************)
(* Batch and division controllers, registration.                           *)
(***************************************************************************)
\* Batch model: name notEmpty, year an integer of 2000..2100
BatchValid(name, year) == name # "" /\ year >= 2000 /\ year <= 2100

\* ON DELETE CASCADE of Sessions.batchId and Sessions.divisionId; the rows
\* of a session go with it
CascadeSessions(gone) ==
  /\ sessions' = sessions \ gone
  /\ attendance' = {a \in attendance : a.sessionId \notin {s.id : s \in gone}}

\* POST /api/batches
createBatch(name, year) ==
  LET reject(code, msg) == /\ last' = Response("createBatch", code, msg)
                           /\ UNCHANGED <<batches, nextId>>
  IN
  /\ nextId.Batch <= MaxBatchId
  /\ UNCHANGED <<divisions, users, sessionTypes, sessions, attendance, pending>>
  /\ IF ~BatchValid(name, year) THEN reject(500, "SequelizeValidationError")
     ELSE IF {b \in batches : b.name = name /\ b.year = year} # {}
     THEN reject(400, "batch exists")
     ELSE /\ batches' = batches \cup {[id |-> nextId.Batch, name |-> name, year |-> year]}
          /\ nextId' = [nextId EXCEPT !.Batch = @ + 1]
          /\ last' = Response("createBatch", 201, "")

\* PUT /api/batches/:id
updateBatch(id, name, year) ==
  LET found == {b \in batches : b.id = id}
      batch == CHOOSE b \in found : TRUE
      updated == [batch EXCEPT !.name = IF name # "" THEN name ELSE batch.name,
                               !.year = IF year # 0 THEN year ELSE batch.year]
      reject(code, msg) == /\ last' = Response("updateBatch", code, msg)
                           /\ UNCHANGED batches
  IN
  /\ UNCHANGED <<divisions, users, sessionTypes, sessions, attendance, nextId, pending>>
  /\ IF found = {} THEN reject(404, "batch not found")
     \* the duplicate query is built with Op.ne
     ELSE IF name # "" /\ year # 0 /\ "Op" \notin BatchControllerScope
     THEN reject(500, "ReferenceError")
     ELSE IF /\ name # "" /\ year # 0
             /\ {b \in batches : b.id # id /\ b.name = name /\ b.year = year} # {}
     THEN reject(400, "batch exists")
     ELSE /\ batches' = (batches \ found) \cup {updated}
          /\ last' = Response("updateBatch", 200, "")

\* a faulty variant of UserCountOfBatch: where: { divisionId } for where: { batchId }
UserCountOfBatchByDivision(id) == Cardinality({u \in users : u.divisionId = id})

\* User.count({ where: { batchId: id } })
UserCountOfBatch(id) == Cardinality({u \in users : u.batchId = id})

\* DELETE /api/batches/:id
deleteBatch(id) ==
  LET found == {b \in batches : b.id = id}
      reject(code, msg) == /\ last' = Response("deleteBatch", code, msg)
                           /\ UNCHANGED <<batches, sessions, attendance>>
  IN
  /\ UNCHANGED <<divisions, users, sessionTypes, nextId, pending>>
  /\ IF found = {} THEN reject(404, "batch not found")
     ELSE IF UserCountOfBatch(id) > 0 THEN reject(400, "has users")
     ELSE /\ batches' = batches \ found
          /\ CascadeSessions({s \in sessions : s.batchId = id})
          /\ last' = Response("deleteBatch", 200, "")

\* POST /api/divisions
createDivision(name) ==
  LET reject(code, msg) == /\ last' = Response("createDivision", code, msg)
                           /\ UNCHANGED <<divisions, nextId>>
  IN
  /\ nextId.Division <= MaxDivisionId
  /\ UNCHANGED <<batches, users, sessionTypes, sessions, attendance, pending>>
  /\ IF name = "" THEN reject(500, "SequelizeValidationError")
     ELSE IF {d \in divisions : d.name = name} # {} THEN reject(400, "division exists")
     ELSE /\ divisions' = divisions \cup {[id |-> nextId.Division, name |-> name]}
          /\ nextId' = [nextId EXCEPT !.Division = @ + 1]
          /\ last' = Response("createDivision", 201, "")

\* PUT /api/divisions/:id
updateDivision(id, name) ==
  LET found == {d \in divisions : d.id = id}
      division == CHOOSE d \in found : TRUE
      updated == [division EXCEPT !.name = IF name # "" THEN name ELSE division.name]
      reject(code, msg) == /\ last' = Response("updateDivision", code, msg)
                           /\ UNCHANGED divisions
  IN
  /\ UNCHANGED <<batches, users, sessionTypes, sessions, attendance, nextId, pending>>
  /\ IF found = {} THEN reject(404, "division not found")
     ELSE IF name # "" /\ name # division.name /\ "Op" \notin DivisionControllerScope
     THEN reject(500, "ReferenceError")
     ELSE IF /\ name # "" /\ name # division.name
             /\ {d \in divisions : d.id # id /\ d.name = name} # {}
     THEN reject(400, "division exists")
     ELSE /\ divisions' = (divisions \ found) \cup {updated}
          /\ last' = Response("updateDivision", 200, "")

\* User.count({ where: { divisionId: id } })
UserCountOfDivision(id) == Cardinality({u \in users : u.divisionId = id})

\* DELETE /api/divisions/:id
deleteDivision(id) ==
  LET found == {d \in divisions : d.id = id}
      reject(code, msg) == /\ last' = Response("deleteDivision", code, msg)
                           /\ UNCHANGED <<divisions, sessions, attendance>>
  IN
  /\ UNCHANGED <<batches, users, sessionTypes, nextId, pending>>
  /\ IF found = {} THEN reject(404, "division not found")
     ELSE IF UserCountOfDivision(id) > 0 THEN reject(400, "has users")
     ELSE /\ divisions' = divisions \ found
          /\ CascadeSessions({s \in sessions : s.divisionId = id})
          /\ last' = Response("deleteDivision", 200, "")

\* POST /api/auth/register.  User.batchId and User.divisionId reference
\* Batches and Divisions: the INSERT fails on an id of no row.
register(email, role, batchId, divisionId) ==
  LET reject(code, msg) == /\ last' = Response("register", code, msg)
                           /\ UNCHANGED <<users, nextId>>
  IN
  /\ nextId.User <= MaxUserId
  /\ UNCHANGED <<batches, divisions, sessionTypes, sessions, attendance, pending>>
  /\ IF {u \in users : u.email = email} # {} THEN reject(400, "email registered")
     ELSE IF \/ (batchId # 0 /\ {b \in batches : b.id = batchId} = {})
             \/ (divisionId # 0 /\ {d \in divisions : d.id = divisionId} = {})
     THEN reject(500, "SequelizeForeignKeyConstraintError")
     ELSE /\ users' = users \cup
               {[id |-> nextId.User, email |-> email,
                 role |-> IF role # "" THEN role ELSE "santri",
                 batchId |-> batchId, divisionId |-> divisionId]}
          /\ nextId' = [nextId EXCEPT !.User = @ + 1]
          /\ last' = Response("register", 201, "")

(***************************************************************************)
(* Specifications, each one request at a time.                             *)
(*   Spec        the attendance requests, with the session requests that   *)
(*               touch attendance rows;                                    *)
(*   SpecSession the session and session-type requests;                    *)
(*   SpecAttendance the requests that write attendance rows;               *)
(*   SpecReports the statistics and report requests, with the writes that  *)
(*               give them rows to count;                                  *)
(*   SpecOrg     the batch, division and registration requests.            *)
(***************************************************************************)
CreateSession ==
  \E date \in CreateDateInputs, sessionTypeId \in CreateTypeIdInputs,
     batchId \in CreateBatchIdInputs, fail \in 0..2 :
    createSession(date, sessionTypeId, batchId, fail)

UpdateSession ==
  \E id \in SessionIdInputs, date \in UpdateDateInputs,
     sessionTypeId \in UpdateTypeIdInputs, batchId \in UpdateBatchIdInputs,
     status \in SessionStatusInputs, fail \in 0..3 :
    updateSession(id, date, sessionTypeId, batchId, status, fail)

\* the updates that move a session to another batch
UpdateSessionBatch ==
  \E id \in SessionIdInputs, batchId \in MoveBatchIdInputs, fail \in 0..3 :
    updateSession(id, << >>, 0, batchId, "", fail)

\* the updates that give a status and nothing else
UpdateSessionStatus ==
  \E id \in SessionIdInputs, status \in StatusOnlyInputs :
    updateSession(id, << >>, 0, 0, status, 0)

DeleteSession ==
  \E id \in SessionIdInputs, fail \in 0..2 : deleteSession(id, fail)

CreateAttendanceRecords ==
  \E sessionId \in SessionIdInputs, userIds \in UserIdsInputs,
     defaultStatus \in AttendanceStatusInputs, actor \in Actors, fail \in 0..1 :
    createAttendanceRecords(sessionId, userIds, defaultStatus, actor, fail)

\* the requests that list one user
CreateAttendanceRecordsOne ==
  \E sessionId \in SessionIdInputs, userId \in UserIdInputs,
     defaultStatus \in AttendanceStatusInputs, actor \in Actors :
    createAttendanceRecords(sessionId, <<userId>>, defaultStatus, actor, 0)

GenerateAttendanceForBatch ==
  \E sessionId \in SessionIdInputs, defaultStatus \in AttendanceStatusInputs,
     actor \in Actors, fail \in 0..1 :
    generateAttendanceForBatch(sessionId, defaultStatus, actor, fail)

BulkCreateUpdateFilteredAttendance ==
  \E sessionId \in SessionIdInputs, userIds \in UserIdsInputs,
     status \in AttendanceStatusInputs, notes \in NotesInputs, actor \in Actors,
     fail \in 0..1 :
    bulkCreateUpdateFilteredAttendance(sessionId, userIds, status, notes, actor, fail)

UpdateAttendance ==
  \E id \in AttendanceIdInputs, status \in UpdateStatusInputs, notes \in NotesInputs,
     actor \in Actors, fail \in 0..1 :
    updateAttendance(id, status, notes, actor, fail)

BulkUpdateAttendance ==
  \E sessionId \in SessionIdInputs, attendanceData \in AttendanceDataInputs,
     actor \in Actors, fail \in 0..2 :
    bulkUpdateAttendance(sessionId, attendanceData, actor, fail)

\* the updates that set a status
UpdateAttendanceStatus ==
  \E id \in AttendanceIdInputs, status \in {"late", "present"}, actor \in Actors :
    updateAttendance(id, status, "", actor, 0)

GetAttendanceStats ==
  \E startDate \in QueryDateInputs, endDate \in QueryDateInputs,
     batchId \in QueryBatchIdInputs :
    getAttendanceStats(startDate, endDate, batchId)

GetAttendanceReports ==
  \E startDate \in QueryDateInputs, endDate \in QueryDateInputs,
     batchId \in QueryBatchIdInputs, divisionId \in QueryDivisionIdInputs,
     sessionTypeId \in QueryTypeIdInputs :
    getAttendanceReports(startDate, endDate, batchId, divisionId, sessionTypeId)

CreateSessionType ==
  \E name \in SessionTypeNameInputs, startTime \in CreateTimeInputs,
     endTime \in CreateTimeInputs, timeColumns \in BOOLEAN :
    createSessionType(name, startTime, endTime, timeColumns)

UpdateSessionType ==
  \E id \in UpdateSessionTypeIdInputs, name \in SessionTypeNameInputs,
     startTime \in UpdateTimeInputs, endTime \in UpdateTimeInputs,
     timeColumns \in BOOLEAN :
    updateSessionType(id, name, startTime, endTime, timeColumns)

DeleteSessionType ==
  \E id \in SessionTypeIdInputs : deleteSessionType(id)

CreateBatch ==
  \E name \in BatchNameInputs, year \in BatchYearInputs : createBatch(name, year)

UpdateBatch ==
  \E id \in BatchIdInputs, name \in BatchNameInputs,
     year \in BatchYearInputs :
    updateBatch(id, name, year)

DeleteBatch == \E id \in BatchIdInputs : deleteBatch(id)

CreateDivision == \E name \in DivisionNameInputs : createDivision(name)

UpdateDivision ==
  \E id \in DivisionIdInputs, name \in DivisionNameInputs :
    updateDivision(id, name)

DeleteDivision == \E id \in DivisionIdInputs : deleteDivision(id)

Register ==
  \E email \in EmailInputs, role \in RoleInputs, batchId \in RegisterBatchIdInputs,
     divisionId \in RegisterDivisionIdInputs :
    register(email, role, batchId, divisionId)

(***************************************************************************)
(* Requests split at their awaits.  Node runs one handler until its next   *)
(* await; the store query it awaits is one step, and steps of different    *)
(* requests interleave.                                                    *)
(***************************************************************************)
\* createAttendanceRecords up to and including the Attendance.findAll of
\* the existing rows
createAttendanceRecordsQuery(r, sessionId, userIds, defaultStatus, actor) ==
  LET out == CreateRecordsOutcome(attendance, nextId.Attendance, sessionId, userIds,
                                  defaultStatus, actor, 0)
  IN
  /\ pending[r] = Idle
  /\ UNCHANGED <<batches, divisions, users, sessionTypes, sessions, attendance, nextId>>
  /\ IF out.created = 0
     THEN /\ last' = Response("createAttendanceRecords", out.code, out.msg)
          /\ UNCHANGED pending
     ELSE /\ pending' = [pending EXCEPT ![r] =
                           [at |-> "bulkCreate", op |-> "createAttendanceRecords",
                            sessionId |-> sessionId,
                            newUserIds |-> NewUserIds(attendance, sessionId, userIds),
                            status |-> IF defaultStatus # "" THEN defaultStatus
                                       ELSE "absent",
                            actor |-> actor]]
          /\ UNCHANGED last

\* generateAttendanceForBatch up to and including the Attendance.findAll of
\* the existing rows
generateAttendanceForBatchQuery(r, sessionId, defaultStatus, actor) ==
  LET out == GenerateOutcome(attendance, nextId.Attendance, sessionId,
                             defaultStatus, actor, 0)
      session == CHOOSE s \in sessions : s.id = sessionId
  IN
  /\ pending[r] = Idle
  /\ UNCHANGED <<batches, divisions, users, sessionTypes, sessions, attendance, nextId>>
  /\ IF out.created = 0
     THEN /\ last' = Response("generateAttendanceForBatch", out.code, out.msg)
          /\ UNCHANGED pending
     ELSE /\ pending' = [pending EXCEPT ![r] =
                           [at |-> "bulkCreate", op |-> "generateAttendanceForBatch",
                            sessionId |-> sessionId,
                            newUserIds |-> NewUserIds(attendance, sessionId,
                                                      SantriIdsOf(session.batchId)),
                            status |-> IF defaultStatus # "" THEN defaultStatus
                                       ELSE "absent",
                            actor |-> actor]]
          /\ UNCHANGED last

\* a faulty variant of ForeignKeyHolds: the store does not check the reference
ForeignKeyUnchecked(sessionId) == TRUE

\* sessionId of an Attendance row references Sessions.id: the store accepts
\* an inserted row only while the session row is there
ForeignKeyHolds(sessionId) == \E s \in sessions : s.id = sessionId

\* Attendance.bulkCreate(attendanceRecords) of either handler, and its
\* answer; an INSERT the store rejects is answered by the error handler
attendanceBulkCreate(r) ==
  LET req == pending[r]
  IN
  /\ req # Idle
  /\ req.at = "bulkCreate"
  /\ UNCHANGED <<batches, divisions, users, sessionTypes, sessions>>
  /\ pending' = [pending EXCEPT ![r] = Idle]
  /\ IF ForeignKeyHolds(req.sessionId)
     THEN /\ nextId.Attendance + Len(req.newUserIds) - 1 <= MaxAttendanceId
          /\ attendance' = attendance \cup
               BulkCreateRows(nextId.Attendance, req.sessionId, req.newUserIds,
                              req.status, "", req.actor)
          /\ nextId' = [nextId EXCEPT !.Attendance = @ + Len(req.newUserIds)]
          /\ last' = IF req.op = "createAttendanceRecords"
                        \/ "batch" \in SessionIncludeKeys
                     THEN Response(req.op, 201, "")
                     ELSE Response(req.op, 500, "TypeError")
     ELSE /\ last' = Response(req.op, 500, "foreign key")
          /\ UNCHANGED <<attendance, nextId>>

\* deleteSession up to and including its Session.findByPk
deleteSessionFind(r, id) ==
  /\ pending[r] = Idle
  /\ UNCHANGED <<batches, divisions, users, sessionTypes, sessions, attendance, nextId>>
  /\ IF {s \in sessions : s.id = id} = {}
     THEN /\ last' = Response("deleteSession", 404, "session not found")
          /\ UNCHANGED pending
     ELSE /\ pending' = [pending EXCEPT ![r] = [at |-> "destroyRows", id |-> id]]
          /\ UNCHANGED last

\* Attendance.destroy({ where: { sessionId: req.params.id } }) of a
\* deleteSession in flight
deleteSessionDestroyRows(r) ==
  LET req == pending[r]
  IN
  /\ req.at = "destroyRows"
  /\ UNCHANGED <<batches, divisions, users, sessionTypes, sessions, nextId, last>>
  /\ attendance' = {a \in attendance : a.sessionId # req.id}
  /\ pending' = [pending EXCEPT ![r] = [at |-> "destroySession", id |-> req.id]]

\* session.destroy() of a deleteSession in flight, and its answer.  Rows
\* inserted since the Attendance.destroy reference the session: the store
\* deletes them with it when the reference is declared ON DELETE CASCADE
\* and rejects the DELETE otherwise; the model does not say which
deleteSessionDestroy(r, onDelete) ==
  LET req == pending[r]
      referenced == \E a \in attendance : a.sessionId = req.id
  IN
  /\ req.at = "destroySession"
  /\ UNCHANGED <<batches, divisions, users, sessionTypes, nextId>>
  /\ pending' = [pending EXCEPT ![r] = Idle]
  /\ IF referenced /\ ForeignKeyHolds(req.id) /\ onDelete = "NO ACTION"
     THEN /\ last' = Response("deleteSession", 500, "foreign key")
          /\ UNCHANGED <<sessions, attendance>>
     ELSE /\ sessions' = {s \in sessions : s.id # req.id}
          /\ attendance' = IF ForeignKeyHolds(req.id)
                           THEN {a \in attendance : a.sessionId # req.id}
                           ELSE attendance
          /\ last' = Response("deleteSession", 200, "")

\* createSession up to and including its Session.findOne
createSessionCheck(r, date, sessionTypeId, batchId) ==
  LET reject(code, msg) == /\ last' = Response("createSession", code, msg)
                           /\ UNCHANGED pending
  IN
  /\ pending[r] = Idle
  /\ UNCHANGED <<batches, divisions, users, sessionTypes, sessions, attendance, nextId>>
  /\ IF ~dateRegex(date) THEN reject(400, "date format")
     ELSE IF {t \in sessionTypes : t.id = sessionTypeId} = {}
     THEN reject(404, "session type not found")
     ELSE IF {b \in batches : b.id = batchId} = {} THEN reject(404, "batch not found")
     ELSE IF ExistingSession(date, sessionTypeId, batchId) # {}
     THEN reject(400, "session exists")
     ELSE /\ pending' = [pending EXCEPT ![r] =
                           [at |-> "create", op |-> "createSession",
                            values |-> [date |-> date, sessionTypeId |-> sessionTypeId,
                                        batchId |-> batchId, notes |-> "",
                                        status |-> "scheduled"]]]
          /\ UNCHANGED last

\* Session.create(values) of createSession and what follows it
createSessionCreate(r) ==
  LET req == pending[r]
      id == nextId.Session
      santri == SantriIdsOf(req.values.batchId)
  IN
  /\ req # Idle
  /\ req.at = "create"
  /\ UNCHANGED <<batches, divisions, users, sessionTypes>>
  /\ pending' = [pending EXCEPT ![r] = Idle]
  /\ IF ~SessionCreateValid(req.values)
     THEN /\ last' = Response("createSession", 500, "SequelizeValidationError")
          /\ UNCHANGED <<sessions, attendance, nextId>>
     ELSE /\ sessions' = sessions \cup {SessionRow(id, req.values)}
          /\ attendance' = attendance \cup
               BulkCreateRows(nextId.Attendance, id, santri, "absent", "", 0)
          /\ nextId' = [nextId EXCEPT !.Session = id + 1,
                                      !.Attendance = @ + Len(santri)]
          /\ last' = Response("createSession", 201, "")

\* updateSession up to its session.update: the instance is loaded first,
\* and the values to write are computed from it
updateSessionCheck(r, id, date, sessionTypeId, batchId, status) ==
  LET found == {s \in sessions : s.id = id}
      session == CHOOSE s \in found : TRUE
      newDate == IF date # << >> THEN date ELSE session.date
      newSessionTypeId == IF sessionTypeId # 0 THEN sessionTypeId ELSE session.sessionTypeId
      newBatchId == IF batchId # 0 THEN batchId ELSE session.batchId
      updated == [session EXCEPT !.date = newDate,
                                 !.sessionTypeId = newSessionTypeId,
                                 !.batchId = newBatchId,
                                 !.status = IF status # "" THEN status ELSE session.status]
      reject(code, msg) == /\ last' = Response("updateSession", code, msg)
                           /\ UNCHANGED pending
  IN
  /\ pending[r] = Idle
  /\ UNCHANGED <<batches, divisions, users, sessionTypes, sessions, attendance, nextId>>
  /\ IF found = {} THEN reject(404, "session not found")
     ELSE IF date # << >> /\ ~dateRegex(date) THEN reject(400, "date format")
     ELSE IF sessionTypeId # 0 /\ {t \in sessionTypes : t.id = sessionTypeId} = {}
     THEN reject(404, "session type not found")
     ELSE IF batchId # 0 /\ {b \in batches : b.id = batchId} = {}
     THEN reject(404, "batch not found")
     ELSE IF /\ (date # << >> \/ sessionTypeId # 0 \/ batchId # 0)
             /\ DuplicateSession(id, newDate, newSessionTypeId, newBatchId) # {}
     THEN reject(400, "session exists")
     ELSE IF status # "" /\ status \notin validSessionStatuses THEN reject(400, "status")
     ELSE /\ pending' = [pending EXCEPT ![r] =
                           [at |-> "update", op |-> "updateSession",
                            updated |-> updated]]
          /\ UNCHANGED last

\* session.update(...) of updateSession: an UPDATE by primary key; the
\* test that follows it never finds the batch changed
updateSessionUpdate(r) ==
  LET req == pending[r]
  IN
  /\ req # Idle
  /\ req.at = "update"
  /\ UNCHANGED <<batches, divisions, users, sessionTypes, attendance, nextId>>
  /\ sessions' = {IF s.id = req.updated.id THEN req.updated ELSE s : s \in sessions}
  /\ pending' = [pending EXCEPT ![r] = Idle]
  /\ last' = Response("updateSession", 200, "")

(***************************************************************************)
(* Routes: the middleware chain in front of each handler.  protect and     *)
(* authorize are required from ../middleware/auth; protect sets req.user   *)
(* from the bearer token, authorize(...roles) tests req.user.role.         *)
(***************************************************************************)
\* the user a request's bearer token names; 0: the request carries no token
CallerInputs == {0, 1, 3, 4}

protect(caller) == \E u \in users : u.id = caller

authorize(roles, caller) == \E u \in users : u.id = caller /\ u.role \in roles

\* the answer of a middleware that ends the request
Denied(code, msg) ==
  /\ UNCHANGED <<batches, divisions, users, sessionTypes, sessions, attendance, nextId, pending>>
  /\ last' = Response("auth", code, msg)

\* .method(protect, authorize(...roles), handler)
Route(caller, roles, handler) ==
  IF ~protect(caller) THEN Denied(401, "not authorized")
  ELSE IF ~authorize(roles, caller) THEN Denied(403, "role not authorized")
  ELSE handler

\* PUT /api/attendance/:id
attendanceRoutes(caller) ==
  \E id \in {1, 9} :
    Route(caller, {"admin", "staff"}, updateAttendance(id, "late", "", caller, 0))

\* POST /api/sessions, PUT and DELETE /api/sessions/:id and the attendance
\* writes under /api/sessions/:sessionId
sessionRoutes(caller) ==
  \/ \E date \in CreateDateInputs :
       Route(caller, {"admin", "staff"}, createSession(date, 1, 1, 0))
  \/ Route(caller, {"admin", "staff"}, updateSession(1, << >>, 0, 0, "completed", 0))
  \/ Route(caller, {"admin"}, deleteSession(2, 0))
  \/ Route(caller, {"admin", "staff"},
           createAttendanceRecords(1, <<2>>, "", caller, 0))
  \/ Route(caller, {"admin", "staff"},
           bulkUpdateAttendance(1, <<Item(1, "excused", "")>>, caller, 0))
  \/ Route(caller, {"admin", "staff"}, generateAttendanceForBatch(1, "", caller, 0))
  \/ Route(caller, {"admin", "staff"},
           bulkCreateUpdateFilteredAttendance(1, <<1>>, "present", "", caller, 0))

\* POST /api/batches, PUT and DELETE /api/batches/:id
batchRoutes(caller) ==
  \/ Route(caller, {"admin"}, createBatch("B", 2025))
  \/ Route(caller, {"admin"}, updateBatch(2, "B", 0))
  \/ Route(caller, {"admin"}, deleteBatch(2))

\* POST /api/divisions, PUT and DELETE /api/divisions/:id
divisionRoutes(caller) ==
  \/ Route(caller, {"admin"}, createDivision("X"))
  \/ Route(caller, {"admin"}, updateDivision(2, "Y"))
  \/ Route(caller, {"admin"}, deleteDivision(2))

\* POST /api/auth/register, @access Public: no middleware in front of it
authRoutes(caller) ==
  \E role \in {"", "admin"} : register("e5", role, 0, 0)

Next ==
  \/ CreateSession
  \/ UpdateSessionBatch
  \/ DeleteSession
  \/ CreateAttendanceRecords
  \/ GenerateAttendanceForBatch
  \/ BulkCreateUpdateFilteredAttendance

Spec == Init /\ [][Next]_vars

NextSession ==
  \/ CreateSession
  \/ UpdateSession
  \/ DeleteSession
  \/ DeleteSessionType

SpecSession == Init /\ [][NextSession]_vars

NextSessionStatus ==
  \/ CreateSession
  \/ UpdateSessionBatch
  \/ UpdateSessionStatus
  \/ DeleteSession

SpecSessionStatus == Init /\ [][NextSessionStatus]_vars

NextAttendance ==
  \/ CreateAttendanceRecordsOne
  \/ GenerateAttendanceForBatch
  \/ UpdateAttendance
  \/ BulkUpdateAttendance

SpecAttendance == Init /\ [][NextAttendance]_vars

NextGenerate ==
  \/ CreateAttendanceRecords
  \/ GenerateAttendanceForBatch

SpecGenerate == Init /\ [][NextGenerate]_vars

\* the filtered bulk requests that name one user
BulkCreateUpdateFilteredAttendanceOne ==
  \E sessionId \in SessionIdInputs, userId \in UserIdInputs,
     status \in AttendanceStatusInputs, actor \in Actors :
    bulkCreateUpdateFilteredAttendance(sessionId, <<userId>>, status, "", actor, 0)

\* every handler that writes Attendance rows or is meant to
NextVerified ==
  \/ CreateSession
  \/ UpdateSessionBatch
  \/ CreateAttendanceRecordsOne
  \/ GenerateAttendanceForBatch
  \/ UpdateAttendanceStatus
  \/ BulkUpdateAttendance
  \/ BulkCreateUpdateFilteredAttendanceOne

SpecVerified == Init /\ [][NextVerified]_vars

NextBulkUpdate ==
  \/ CreateAttendanceRecordsOne
  \/ BulkUpdateAttendance

SpecBulkUpdate == Init /\ [][NextBulkUpdate]_vars

\* userIds arrays that name no user twice
DistinctUserIdsInputs == {<<1>>, <<2>>, <<1, 2>>}

\* createAttendanceRecords, generateAttendanceForBatch and
\* bulkCreateUpdateFilteredAttendance requests in flight together
NextCreateRace ==
  \E r \in Requests, sessionId \in SessionIdInputs,
     defaultStatus \in AttendanceStatusInputs, actor \in Actors :
    \/ \E userIds \in DistinctUserIdsInputs :
         createAttendanceRecordsQuery(r, sessionId, userIds, defaultStatus, actor)
    \/ generateAttendanceForBatchQuery(r, sessionId, defaultStatus, actor)
    \/ attendanceBulkCreate(r)
    \/ \E userIds \in DistinctUserIdsInputs :
         bulkCreateUpdateFilteredAttendance(sessionId, userIds, defaultStatus, "",
                                            actor, 0)

SpecCreateRace == Init /\ [][NextCreateRace]_vars

\* a deleteSession in flight together with createAttendanceRecords,
\* generateAttendanceForBatch and bulkCreateUpdateFilteredAttendance requests
NextDeleteRace ==
  \E r \in Requests, sessionId \in SessionIdInputs, actor \in Actors :
    \/ \E userIds \in DistinctUserIdsInputs :
         createAttendanceRecordsQuery(r, sessionId, userIds, "present", actor)
    \/ generateAttendanceForBatchQuery(r, sessionId, "present", actor)
    \/ attendanceBulkCreate(r)
    \/ bulkCreateUpdateFilteredAttendance(sessionId, <<2>>, "present", "", actor, 0)
    \/ deleteSessionFind(r, sessionId)
    \/ deleteSessionDestroyRows(r)
    \/ \E onDelete \in {"CASCADE", "NO ACTION"} : deleteSessionDestroy(r, onDelete)

SpecDeleteRace == Init /\ [][NextDeleteRace]_vars

\* createSession requests in flight together, and with one updateSession
NextSessionRace ==
  \/ \E r \in Requests, date \in CreateDateInputs, batchId \in CreateBatchIdInputs :
       createSessionCheck(r, date, 1, batchId)
  \/ \E r \in Requests : createSessionCreate(r)
  \/ \E id \in SessionIdInputs, date \in {<< >>, D1, D2}, batchId \in {0, 1, 2} :
       updateSessionCheck(1, id, date, 0, batchId, "")
  \/ updateSessionUpdate(1)

SpecSessionRace == Init /\ [][NextSessionRace]_vars

\* the five Attendance.count queries of getAttendanceStats, in the order of
\* their awaits (788-821)
StatsCountOrder == <<"total", "present", "absent", "late", "excused">>

\* getAttendanceStats up to and including the Session.findAll: no matching
\* session is answered at once (771-785)
getAttendanceStatsQuery(r, startDate, endDate, batchId) ==
  LET sessionIds == {x.id : x \in SessionsWhere(startDate, endDate, batchId, 0)}
  IN
  /\ pending[r] = Idle
  /\ UNCHANGED <<batches, divisions, users, sessionTypes, sessions, attendance, nextId>>
  /\ IF sessionIds = {}
     THEN /\ last' = DataResponse("getAttendanceStats", 200, "",
                                  StatsData(startDate, endDate, batchId))
          /\ UNCHANGED pending
     ELSE /\ pending' = [pending EXCEPT ![r] =
                           [at |-> "count", sessionIds |-> sessionIds, counts |-> << >>]]
          /\ UNCHANGED last

\* the next Attendance.count of a getAttendanceStats in flight, against the
\* rows there are when it runs; the fifth one is followed by the answer
getAttendanceStatsCount(r) ==
  LET req == pending[r]
      rows == {a \in attendance : a.sessionId \in req.sessionIds}
      which == StatsCountOrder[Len(req.counts) + 1]
      counts == Append(req.counts, IF which = "total" THEN Cardinality(rows)
                                   ELSE CountStatus(rows, which))
      attendanceRate == AttendanceRate(counts[2], counts[4], counts[1])
  IN
  /\ req.at = "count"
  /\ UNCHANGED <<batches, divisions, users, sessionTypes, sessions, attendance, nextId>>
  /\ IF Len(counts) < Len(StatsCountOrder)
     THEN /\ pending' = [pending EXCEPT ![r].counts = counts]
          /\ UNCHANGED last
     ELSE /\ pending' = [pending EXCEPT ![r] = Idle]
          /\ last' = DataResponse("getAttendanceStats", 200, "",
                        [totalSessions |-> Cardinality(req.sessionIds),
                         totalAttendanceRecords |-> counts[1],
                         statusCounts |-> [present |-> counts[2], absent |-> counts[3],
                                           late |-> counts[4], excused |-> counts[5]],
                         attendanceRate |->
                           [num |-> ToFixed2(attendanceRate.num, attendanceRate.den),
                            den |-> 100]])

\* a statistics request between whose queries updateAttendance,
\* createAttendanceRecords and deleteSession requests are served
NextStatsRace ==
  \/ \E batchId \in QueryBatchIdInputs :
       getAttendanceStatsQuery(1, << >>, << >>, batchId)
  \/ getAttendanceStatsCount(1)
  \/ \E id \in AttendanceIdInputs, actor \in Actors :
       updateAttendance(id, "late", "", actor, 0)
  \/ \E sessionId \in SessionIdInputs, userId \in UserIdInputs, actor \in Actors :
       createAttendanceRecords(sessionId, <<userId>>, "present", actor, 0)
  \/ \E id \in SessionIdInputs : deleteSession(id, 0)

SpecStatsRace == Init /\ [][NextStatsRace]_vars

NextSessionType ==
  \/ CreateSessionType
  \/ UpdateSessionType
  \/ DeleteSessionType

SpecSessionType == Init /\ [][NextSessionType]_vars

NextReports ==
  \/ CreateAttendanceRecordsOne
  \/ UpdateAttendanceStatus
  \/ GetAttendanceStats
  \/ GetAttendanceReports

SpecReports == Init /\ [][NextReports]_vars

NextRoutes ==
  \E caller \in CallerInputs :
    \/ attendanceRoutes(caller)
    \/ sessionRoutes(caller)
    \/ batchRoutes(caller)
    \/ divisionRoutes(caller)
    \/ authRoutes(caller)

SpecRoutes == Init /\ [][NextRoutes]_vars

NextOrg ==
  \/ CreateBatch
  \/ UpdateBatch
  \/ DeleteBatch
  \/ CreateDivision
  \/ UpdateDivision
  \/ DeleteDivision
  \/ Register

SpecOrg == Init /\ [][NextOrg]_vars

(***************************************************************************)
(* Properties of the session and attendance requests.                      *)
(***************************************************************************)
\* the ids of the santri users of a batch
SantriSet(batchId) == {u.id : u \in {x \in users : x.batchId = batchId /\ x.role = "santri"}}

\* rows is one row per santri user of the batch, each "absent" and unverified
OneAbsentRowPerSantri(rows, batchId) ==
  /\ {a.userId : a \in rows} = SantriSet(batchId)
  /\ Cardinality(rows) = Cardinality(SantriSet(batchId))
  /\ \A a \in rows : a.status = "absent" /\ a.verifiedBy = 0

\* C1: a createSession request with a well-formed date, an existing session
\* type, an existing batch and a (date, type, batch) no session has, none of
\* whose writes fails, succeeds and leaves for the one new session exactly
\* one attendance row per santri user of the batch, each with status
\* "absent" and no verifier, and no row for a user of another role.
C1_CreateSessionGeneratesRows ==
  [][\A date \in CreateDateInputs, sessionTypeId \in CreateTypeIdInputs,
        batchId \in CreateBatchIdInputs :
       ( /\ last'.op = "createSession"
         /\ createSession(date, sessionTypeId, batchId, 0)
         /\ dateRegex(date)
         /\ \E t \in sessionTypes : t.id = sessionTypeId
         /\ \E b \in batches : b.id = batchId
         /\ ExistingSession(date, sessionTypeId, batchId) = {} )
       => /\ last'.code = 201
          /\ Cardinality(sessions' \ sessions) = 1
          /\ \A s \in sessions' \ sessions :
               OneAbsentRowPerSantri({a \in attendance' : a.sessionId = s.id}, batchId)
    ]_vars

\* C2: no two attendance rows share (sessionId, userId).
C2_NoDuplicateAttendance ==
  \A a \in attendance, b \in attendance :
    (a.sessionId = b.sessionId /\ a.userId = b.userId) => a = b

\* C3: a filtered-attendance request that is not answered 200 leaves the
\* attendance table as it was: no row of the call is updated or created.
C3_BulkFilteredAllOrNothing ==
  [][(last'.op = "bulkCreateUpdateFilteredAttendance" /\ last'.code # 200)
       => attendance' = attendance]_vars

\* a filtered-attendance request was answered with the error of its
\* transaction while session 1 holds a row it would have updated
C3_Witness ==
  /\ last = Response("bulkCreateUpdateFilteredAttendance", 500, "ReferenceError")
  /\ \E a \in attendance : a.sessionId = 1 /\ a.userId = 1

\* C4: after an updateSession answered 200 whose batchId differs from the
\* stored one, every attendance row the session had is deleted and the
\* session has exactly one row ("absent", no verifier) per santri user of
\* the new batch.
C4_UpdateSessionRegeneratesRows ==
  [][\A id \in SessionIdInputs, batchId \in MoveBatchIdInputs, fail \in 0..3 :
       ( /\ last'.op = "updateSession"
         /\ updateSession(id, << >>, 0, batchId, "", fail)
         /\ last'.code = 200
         /\ batchId # 0
         /\ \E s \in sessions : s.id = id /\ s.batchId # batchId )
       => LET rows == {a \in attendance' : a.sessionId = id}
          IN /\ rows \cap attendance = {}
             /\ OneAbsentRowPerSantri(rows, batchId)
    ]_vars

\* C5: whatever the request, deleteSession of an id of no session answers
\* 404 and changes nothing; of an existing session, when no write fails, it
\* answers 200 and leaves neither the Session row nor a row of its
\* attendance; and the rows go first: whatever write fails, the Session row
\* is never gone while a row of its attendance is left.
C5_DeleteSessionCascade ==
  \A id \in SessionIdInputs, fail \in 0..2 :
    ~ENABLED
     ( /\ deleteSession(id, fail)
       /\ ~ ( /\ ({s \in sessions : s.id = id} = {})
                   => (last'.code = 404 /\ sessions' = sessions
                       /\ attendance' = attendance)
              /\ ({s \in sessions : s.id = id} # {} /\ fail = 0)
                   => /\ last'.code = 200
                      /\ {s \in sessions' : s.id = id} = {}
                      /\ {a \in attendance' : a.sessionId = id} = {}
                      /\ {s \in sessions' : s.id # id} = {s \in sessions : s.id # id}
                      /\ {a \in attendance' : a.sessionId # id}
                           = {a \in attendance : a.sessionId # id}
              /\ ({a \in attendance' : a.sessionId = id} # {})
                   => {s \in sessions' : s.id = id} = {s \in sessions : s.id = id} ) )

\* session 1, which had an attendance row, was deleted, and its rows with it
C5_Witness ==
  /\ last = Response("deleteSession", 200, "")
  /\ {s \in sessions : s.id = 1} = {}
  /\ {a \in attendance : a.sessionId = 1} = {}
  /\ {s \in sessions : s.id = 2} # {}

\* C10: whatever the request, createAttendanceRecords leaves every row the table had as it was,
\* inserts no row for a user who has a row for the session, and when it
\* answers 201 has inserted rows for exactly the other users of the list,
\* each with the given status ("absent" when none is given) and the acting
\* user as verifier; it answers 201 whenever the session exists, the status
\* is valid, a listed user has no row and the insert does not fail; a given
\* status outside present, late, absent, excused is rejected, no row
\* inserted.
C10_CreateAttendanceRecordsSkipsExisting ==
  \A sessionId \in SessionIdInputs, userIds \in UserIdsInputs,
     defaultStatus \in AttendanceStatusInputs, actor \in Actors, fail \in 0..1 :
    ~ENABLED
     ( /\ createAttendanceRecords(sessionId, userIds, defaultStatus, actor, fail)
       /\ ~ LET had == {a.userId : a \in {x \in attendance : x.sessionId = sessionId}}
              remaining == Range(userIds) \ had
              new == attendance' \ attendance
              status == IF defaultStatus = "" THEN "absent" ELSE defaultStatus
          IN /\ attendance \subseteq attendance'
             /\ \A a \in new : /\ a.sessionId = sessionId
                               /\ a.userId \in remaining
                               /\ a.status = status
                               /\ a.verifiedBy = actor
             /\ (last'.code = 201) => ({a.userId : a \in new} = remaining)
             /\ (last'.code # 201) => (new = {})
             /\ ( /\ {s \in sessions : s.id = sessionId} # {}
                  /\ status \in validStatuses
                  /\ remaining # {}
                  /\ fail = 0 ) => (last'.code = 201)
             /\ (defaultStatus # "" /\ defaultStatus \notin validStatuses)
                  => (new = {} /\ last'.code \in {400, 404}) )

\* user 2 got a "present" row for session 1 verified by the staff account,
\* and the row user 1 had is as it was
C10_Witness ==
  /\ last = Response("createAttendanceRecords", 201, "")
  /\ \E a \in attendance : /\ a.sessionId = 1 /\ a.userId = 2
                           /\ a.status = "present" /\ a.verifiedBy = 3
  /\ AttendanceRow(1, 1, 1, "absent", "", 0) \in attendance
  /\ Cardinality({a \in attendance : a.sessionId = 1 /\ a.userId = 1}) = 1

(***************************************************************************)
(* Properties of the session and session-type requests.                    *)
(***************************************************************************)
SameTriple(s, t) ==
  s.date = t.date /\ s.sessionTypeId = t.sessionTypeId /\ s.batchId = t.batchId

\* C7: no two distinct sessions have the same (date, sessionTypeId,
\* batchId); whatever the request, a createSession of a triple a session has, and an updateSession
\* whose resulting triple another session has, is answered 400 and changes
\* nothing; an updateSession is never refused as a duplicate when no other
\* session has the resulting triple, its own triple included.
C7_UniqueSessionTriple ==
  /\ \A s \in sessions, t \in sessions : SameTriple(s, t) => s = t
  /\ \A date \in CreateDateInputs, sessionTypeId \in CreateTypeIdInputs,
        batchId \in CreateBatchIdInputs, fail \in 0..2 :
       ~ENABLED
        ( /\ createSession(date, sessionTypeId, batchId, fail)
          /\ ExistingSession(date, sessionTypeId, batchId) # {}
          /\ ~ ( /\ last' = Response("createSession", 400, "session exists")
                 /\ sessions' = sessions
                 /\ attendance' = attendance ) )
  /\ \A id \in SessionIdInputs, date \in UpdateDateInputs,
        sessionTypeId \in UpdateTypeIdInputs, batchId \in UpdateBatchIdInputs,
        status \in SessionStatusInputs, fail \in 0..3 :
       ~ENABLED
        ( /\ updateSession(id, date, sessionTypeId, batchId, status, fail)
          /\ {s \in sessions : s.id = id} # {}
          /\ ~ LET session == CHOOSE s \in sessions : s.id = id
                 result == [date |-> IF date # << >> THEN date ELSE session.date,
                            sessionTypeId |-> IF sessionTypeId # 0 THEN sessionTypeId
                                              ELSE session.sessionTypeId,
                            batchId |-> IF batchId # 0 THEN batchId ELSE session.batchId]
                 others == {t \in sessions : t.id # id /\ SameTriple(t, result)}
             IN /\ (others # {})
                     => /\ last' = Response("updateSession", 400, "session exists")
                        /\ sessions' = sessions
                        /\ attendance' = attendance
                /\ (others = {})
                     => last' # Response("updateSession", 400, "session exists") )

\* an update of one of the two sessions was refused as a duplicate of the
\* other
C7_Witness ==
  /\ last = Response("updateSession", 400, "session exists")
  /\ Cardinality(sessions) = 2

\* C9: every session's sessionTypeId is the id of a session type, and a
\* deleteSessionType of a type some session has is answered 400 and leaves
\* the session types as they were.
C9_SessionTypeInUseKept ==
  /\ [](\A s \in sessions : \E t \in sessionTypes : t.id = s.sessionTypeId)
  /\ [][\A id \in SessionTypeIdInputs :
          ( /\ last'.op = "deleteSessionType"
            /\ deleteSessionType(id)
            /\ \E s \in sessions : s.sessionTypeId = id )
          => /\ last' = Response("deleteSessionType", 400, "has sessions")
             /\ sessionTypes' = sessionTypes
       ]_vars

\* the deletion of a session type was refused while session 1 was gone and
\* session 2 had the type
C9_Witness ==
  /\ last = Response("deleteSessionType", 400, "has sessions")
  /\ {s \in sessions : s.id = 1} = {}
  /\ \E s \in sessions : \E t \in sessionTypes : t.id = s.sessionTypeId

(***************************************************************************)
(* Properties of the batch, division and registration requests.            *)
(***************************************************************************)
\* C6: no user has the batchId of no batch or the divisionId of no
\* division; deleteBatch of an existing batch is answered 400 and leaves it
\* when a user has its batchId, and is answered 200 and removes just that
\* batch when none has; likewise deleteDivision.
C6_ReferencedBatchDivisionKept ==
  /\ [](\A u \in users :
          /\ (u.batchId # 0) => (\E b \in batches : b.id = u.batchId)
          /\ (u.divisionId # 0) => (\E d \in divisions : d.id = u.divisionId))
  /\ [][\A id \in BatchIdInputs :
          ( /\ last'.op = "deleteBatch"
            /\ deleteBatch(id)
            /\ {b \in batches : b.id = id} # {} )
          => IF \E u \in users : u.batchId = id
             THEN last'.code = 400 /\ batches' = batches
             ELSE last'.code = 200 /\ batches' = {b \in batches : b.id # id}
       ]_vars
  /\ [][\A id \in DivisionIdInputs :
          ( /\ last'.op = "deleteDivision"
            /\ deleteDivision(id)
            /\ {d \in divisions : d.id = id} # {} )
          => IF \E u \in users : u.divisionId = id
             THEN last'.code = 400 /\ divisions' = divisions
             ELSE last'.code = 200 /\ divisions' = {d \in divisions : d.id # id}
       ]_vars

\* the deletion of a batch was refused after division 2, which no user had,
\* was deleted, and a registered user has batch 2
C6_Witness ==
  /\ last = Response("deleteBatch", 400, "has users")
  /\ {d \in divisions : d.id = 2} = {}
  /\ \E u \in users : u.id = 5 /\ u.batchId = 2
  /\ \E b \in batches : b.id = 2

\* C8: no two distinct batches share (name, year) and no two distinct
\* divisions share a name.
C8_UniqueBatchAndDivisionNames ==
  /\ \A a \in batches, b \in batches : (a.name = b.name /\ a.year = b.year) => a = b
  /\ \A c \in divisions, d \in divisions : (c.name = d.name) => c = d

(***************************************************************************)
(* Properties of the attendance writes and reads.                          *)
(***************************************************************************)
\* C11: a filtered-attendance request for an existing session with a
\* non-empty list and a valid status, none of whose writes fails, is
\* answered 200, and then every listed user has exactly one row for the
\* session, with the given status and the acting user as verifier, no row
\* that existed is gone or doubled, and the rows of the other users and
\* sessions are as they were.
C11_BulkFilteredUpserts ==
  [][\A sessionId \in SessionIdInputs, userIds \in UserIdsInputs,
        status \in AttendanceStatusInputs, notes \in NotesInputs, actor \in Actors :
       ( /\ last'.op = "bulkCreateUpdateFilteredAttendance"
         /\ bulkCreateUpdateFilteredAttendance(sessionId, userIds, status, notes, actor, 0)
         /\ Len(userIds) > 0
         /\ \E s \in sessions : s.id = sessionId
         /\ status \in validStatuses )
       => /\ last'.code = 200
          /\ \A u \in Range(userIds) :
               LET rows == {a \in attendance' : a.sessionId = sessionId /\ a.userId = u}
                   old == {a \in attendance : a.sessionId = sessionId /\ a.userId = u}
               IN /\ rows # {}
                  /\ \A a \in rows : a.status = status /\ a.verifiedBy = actor
                  /\ {a.id : a \in old} \subseteq {a.id : a \in rows}
                  /\ (old # {}) => Cardinality(rows) = Cardinality(old)
                  /\ (old = {}) => Cardinality(rows) = 1
          /\ {a \in attendance' : ~(a.sessionId = sessionId /\ a.userId \in Range(userIds))}
               = {a \in attendance : ~(a.sessionId = sessionId /\ a.userId \in Range(userIds))}
    ]_vars

\* C12: whatever the request, bulkUpdateAttendance creates and deletes no
\* row and leaves as it was every row whose id is not in attendanceData or
\* whose sessionId is not the one of the path; when the session exists, the
\* items are valid and no write fails it is answered 200 although an item
\* names a row of another session or of no row, and each row it names in
\* the session then has the status of an item naming it and the acting user
\* as verifier.
C12_BulkUpdateOnlyNamedRowsOfSession ==
  \A sessionId \in SessionIdInputs, attendanceData \in AttendanceDataInputs,
     actor \in Actors, fail \in 0..2 :
    ~ENABLED
     ( /\ bulkUpdateAttendance(sessionId, attendanceData, actor, fail)
       /\ ~ LET items == Range(attendanceData)
                ids == {i.id : i \in items}
                named == {a \in attendance : a.id \in ids /\ a.sessionId = sessionId}
            IN /\ Cardinality(attendance') = Cardinality(attendance)
               /\ \A a \in attendance : \E b \in attendance' :
                    b.id = a.id /\ b.sessionId = a.sessionId /\ b.userId = a.userId
               /\ \A a \in attendance \ named : a \in attendance'
               /\ ( /\ Len(attendanceData) > 0
                    /\ \E x \in sessions : x.id = sessionId
                    /\ \A i \in items : i.id # 0 /\ i.status \in validStatuses
                    /\ fail = 0 )
                    => /\ last'.code = 200
                       /\ \A a \in named : \E b \in attendance' :
                            /\ b.id = a.id
                            /\ b.verifiedBy = actor
                            /\ \E i \in items : i.id = a.id /\ i.status = b.status )

\* a bulk update of session 1 set row 1 to "late" while row 2, of session 2
\* and named in the same array, kept another status
C12_Witness ==
  /\ last = Response("bulkUpdateAttendance", 200, "")
  /\ \E a \in attendance : a.id = 1 /\ a.sessionId = 1 /\ a.status = "late"
  /\ \E a \in attendance : a.id = 2 /\ a.sessionId = 2 /\ a.status = "present"

\* C13: every attendance row's status is one of present, absent, late,
\* excused; and whatever the request, an updateAttendance whose status is
\* none of them, a missing one included, is rejected and leaves every row
\* as it was.
C13_AttendanceStatusValid ==
  /\ \A a \in attendance : a.status \in validStatuses
  /\ \A id \in AttendanceIdInputs, status \in UpdateStatusInputs, notes \in NotesInputs,
        actor \in Actors, fail \in 0..1 :
       ~ENABLED
        ( /\ updateAttendance(id, status, notes, actor, fail)
          /\ status \notin validStatuses
          /\ ~ ( /\ last'.code \in {400, 404}
                 /\ attendance' = attendance ) )

\* an update of an existing row was refused for its status, after an
\* earlier update had set row 1 to "late"
C13_Witness ==
  /\ last = Response("updateAttendance", 400, "status")
  /\ \E a \in attendance : a.id = 1 /\ a.status = "late" /\ a.verifiedBy = 3

\* |x|
Abs(x) == IF x < 0 THEN 0 - x ELSE x

\* C14: every getAttendanceStats request is answered 200 with the data of
\* its query, and whatever the query, the data are the counts of the rows
\* of the sessions whose date is from startDate to endDate, both included,
\* and whose batch is the one asked for; the attendanceRate is the multiple
\* of 0.01 nearest to (present + late) / total * 100 (66.67 for one
\* present, one late and one absent row), 0 when these sessions have no
\* row, and with no such session every number of the answer is 0.
C14_StatsRate ==
  /\ (last.op = "getAttendanceStats")
       => /\ last.code = 200
          /\ \E startDate \in QueryDateInputs, endDate \in QueryDateInputs,
                batchId \in QueryBatchIdInputs :
               last.data = StatsData(startDate, endDate, batchId)
  /\ \A startDate \in QueryDateInputs, endDate \in QueryDateInputs,
        batchId \in QueryBatchIdInputs :
       LET inRange == {x \in sessions :
                         /\ (startDate = << >>) \/ x.date = startDate
                              \/ (startDate = D1 /\ x.date = D2)
                         /\ (endDate = << >>) \/ x.date = endDate
                              \/ (endDate = D2 /\ x.date = D1)
                         /\ (batchId = 0) \/ x.batchId = batchId}
           rows == {a \in attendance : a.sessionId \in {x.id : x \in inRange}}
           total == Cardinality(rows)
           good == Cardinality({a \in rows : a.status \in {"present", "late"}})
           data == StatsData(startDate, endDate, batchId)
           rate == data.attendanceRate
       IN /\ data.totalSessions = Cardinality(inRange)
          /\ data.totalAttendanceRecords = total
          /\ \A st \in validStatuses :
               data.statusCounts[st] = Cardinality({a \in rows : a.status = st})
          /\ rate.den = 100
          /\ (total = 0) => (rate.num = 0)
          /\ (total > 0) => (2 * Abs(rate.num * total - good * 10000) <= total)
          /\ (total = 3 /\ good = 2) => (rate.num = 6667)

\* the statistics of three rows, two of them present or late, were
\* answered with the rate 66.67
C14_Witness ==
  /\ last.op = "getAttendanceStats"
  /\ last.data.totalAttendanceRecords = 3
  /\ last.data.statusCounts.present + last.data.statusCounts.late = 2
  /\ last.data.attendanceRate = [num |-> 6667, den |-> 100]

\* C15: a getAttendanceReports request with the startDate, endDate and
\* batchId of a getAttendanceStats request, and no other filter, is
\* answered 200 with the attendanceRate and the number of rows that
\* getAttendanceStats answers in the same state.
C15_ReportsRateEqualsStats ==
  [][\A startDate \in QueryDateInputs, endDate \in QueryDateInputs,
        batchId \in QueryBatchIdInputs :
       ( /\ last'.op = "getAttendanceReports"
         /\ getAttendanceReports(startDate, endDate, batchId, 0, 0) )
       => LET stats == StatsData(startDate, endDate, batchId)
          IN /\ last'.code = 200
             /\ "data" \in DOMAIN last'
             /\ last'.data.totalRecords = stats.totalAttendanceRecords
             /\ last'.data.attendanceRate.num * stats.attendanceRate.den
                  = stats.attendanceRate.num * last'.data.attendanceRate.den
    ]_vars


\* C16: generateAttendanceForBatch fails and inserts no row when the session
\* does not exist, has no batch, or its batch has no santri-role user; in
\* every other case the rows it inserts are for the session, one each for
\* santri users of the session's batch that had no row for it, and no
\* existing row is removed or changed.
C16_GenerateInsertsOnlyMissingSantriRows ==
  \A sessionId \in SessionIdInputs, defaultStatus \in AttendanceStatusInputs,
     actor \in Actors, fail \in 0..1 :
    LET out == GenerateOutcome(attendance, nextId.Attendance, sessionId,
                               defaultStatus, actor, fail)
        added == out.attendance \ attendance
    IN /\ \/ \A s \in sessions : s.id # sessionId
          \/ \E s \in sessions :
               /\ s.id = sessionId
               /\ \/ s.batchId = 0
                  \/ \A u \in users : ~(u.batchId = s.batchId /\ u.role = "santri")
          => /\ out.code >= 400
             /\ out.attendance = attendance
       /\ attendance \subseteq out.attendance
       /\ Cardinality(added) = out.created
       /\ \A a \in added :
            /\ a.sessionId = sessionId
            /\ \E s \in sessions, u \in users :
                 /\ s.id = sessionId
                 /\ u.id = a.userId
                 /\ u.role = "santri"
                 /\ u.batchId = s.batchId
            /\ \A b \in attendance : ~(b.sessionId = sessionId /\ b.userId = a.userId)
            /\ \A b \in added : b.userId = a.userId => b = a

\* generateAttendanceForBatch has added the row of santri 2 for session 1,
\* and no staff or admin user has a row
C16_Witness ==
  /\ last.op = "generateAttendanceForBatch"
  /\ \E a \in attendance : a.sessionId = 1 /\ a.userId = 2 /\ a.verifiedBy = 3
  /\ \A a \in attendance : a.userId \in {1, 2}
  /\ Cardinality(attendance) = 2

\* the userIds arrays re-invocation is checked with
RepeatUserIds == {<<1>>, <<2>>, <<1, 2>>, <<2, 2>>}

Stored == <<users, batches, divisions, sessions, attendance>>

\* C18: a request whose caller holds no valid bearer token, or whose caller
\* is a santri, never creates, modifies or deletes a User, Batch, Division,
\* Session or Attendance row.
C18_WritesNeedPermittedRole ==
  \A caller \in {0, 1} :
    /\ ~ENABLED (attendanceRoutes(caller) /\ Stored' # Stored)
    /\ ~ENABLED (sessionRoutes(caller) /\ Stored' # Stored)
    /\ ~ENABLED (batchRoutes(caller) /\ Stored' # Stored)
    /\ ~ENABLED (divisionRoutes(caller) /\ Stored' # Stored)
    /\ ~ENABLED (authRoutes(caller) /\ Stored' # Stored)

\* C19: updateSession accepts each of scheduled, in-progress, completed and
\* cancelled whatever status the session has, and stores it; it rejects any
\* other status value and leaves the session as it was; a Session row that
\* createSession stores has the status scheduled.
C19_SessionStatusUnguarded ==
  /\ \A s \in sessions : s.status \in validSessionStatuses
  /\ \A id \in SessionIdInputs, status \in StatusOnlyInputs :
       ~ENABLED
        ( /\ updateSession(id, << >>, 0, 0, status, 0)
          /\ \E s \in sessions :
               /\ s.id = id
               /\ status \in {"scheduled", "in-progress", "completed", "cancelled"}
               /\ ~ ( /\ last'.code = 200
                      /\ sessions' = (sessions \ {s}) \cup {[s EXCEPT !.status = status]} ) )
  /\ \A id \in SessionIdInputs, date \in UpdateDateInputs,
        sessionTypeId \in UpdateTypeIdInputs, batchId \in UpdateBatchIdInputs,
        status \in {"postponed", "done"}, fail \in 0..3 :
       ~ENABLED
        ( /\ updateSession(id, date, sessionTypeId, batchId, status, fail)
          /\ ~ ( /\ last'.code \in {400, 404}
                 /\ sessions' = sessions
                 /\ attendance' = attendance ) )
  /\ \A date \in CreateDateInputs, sessionTypeId \in CreateTypeIdInputs,
        batchId \in CreateBatchIdInputs, fail \in 0..2 :
       ~ENABLED
        ( /\ createSession(date, sessionTypeId, batchId, fail)
          /\ \E s \in sessions' \ sessions : s.status # "scheduled" )

\* updateSession has taken session 1 to cancelled and session 2 to completed,
\* and accepts in-progress for the one and scheduled for the other
C19_Witness ==
  /\ last = Response("updateSession", 200, "")
  /\ \E s \in sessions : s.id = 1 /\ s.status = "cancelled"
  /\ \E s \in sessions : s.id = 2 /\ s.status = "completed"
  /\ ENABLED ( /\ updateSession(1, << >>, 0, 0, "in-progress", 0)
               /\ \E s \in sessions' : s.id = 1 /\ s.status = "in-progress" )
  /\ ENABLED ( /\ updateSession(2, << >>, 0, 0, "scheduled", 0)
               /\ \E s \in sessions' : s.id = 2 /\ s.status = "scheduled" )

\* C20: createSession answers a malformed date with a validation error
\* (400), a sessionTypeId or batchId that does not exist with a not-found
\* error (404), and a (date, sessionTypeId, batchId) that a session already
\* has with a conflict error whose status is not the validation error's
\* (409); in each case no Session row and no Attendance row is created.
C20_CreateSessionErrors ==
  [][\A date \in CreateDateInputs, sessionTypeId \in CreateTypeIdInputs,
        batchId \in CreateBatchIdInputs, fail \in 0..2 :
       ( /\ last'.op = "createSession"
         /\ createSession(date, sessionTypeId, batchId, fail) )
       => LET wellFormed == dateRegex(date)
              typeFound == \E t \in sessionTypes : t.id = sessionTypeId
              batchFound == \E b \in batches : b.id = batchId
              duplicate == \E s \in sessions :
                             /\ s.date = date
                             /\ s.sessionTypeId = sessionTypeId
                             /\ s.batchId = batchId
              nothingCreated == sessions' = sessions /\ attendance' = attendance
          IN /\ ~wellFormed => last'.code = 400 /\ nothingCreated
             /\ wellFormed /\ ~(typeFound /\ batchFound)
                  => last'.code = 404 /\ nothingCreated
             /\ wellFormed /\ typeFound /\ batchFound /\ duplicate
                  => last'.code = 409 /\ nothingCreated
    ]_vars

C22_ConcurrentCreatesNoDuplicate ==
  (\A r \in Requests : pending[r] = Idle)
    => \A a, b \in attendance :
         a.sessionId = b.sessionId /\ a.userId = b.userId => a = b

\* C23: with createSession requests in flight together, or a createSession
\* and an updateSession, their findOne checks and their writes interleaved,
\* at most one Session row has any one (date, sessionTypeId, batchId).
C23_ConcurrentSessionsUniqueTriple ==
  \A s \in sessions, t \in sessions : SameTriple(s, t) => s = t

\* a createSession passed its findOne check, an updateSession then gave a
\* session the same triple, and the createSession has finished: both triples
\* the request could name are taken, each by one session
C23_Witness ==
  /\ \A r \in Requests : pending[r] = Idle
  /\ last = Response("createSession", 500, "SequelizeValidationError")
  /\ \E s \in sessions : s.date = D2 /\ s.sessionTypeId = 1 /\ s.batchId = 1
  /\ \E s \in sessions : s.date = D2 /\ s.sessionTypeId = 1 /\ s.batchId = 2

RECURSIVE SumTotalRecords(_)
SumTotalRecords(entries) ==
  IF entries = {} THEN 0
  ELSE LET e == CHOOSE x \in entries : TRUE
       IN e.totalRecords + SumTotalRecords(entries \ {e})

\* C24: a getAttendanceReports request that matches a session is answered
\* with statistics in which the four byStatus counters add up to
\* totalRecords, every byBatch, byDivision and bySessionType entry has
\* present + absent + late + excused = totalRecords, and the totalRecords
\* of the byBatch entries, and of the bySessionType entries, add up to
\* statistics.totalRecords.
C24_ReportGroupsCountEachRecordOnce ==
  [][\A startDate \in QueryDateInputs, endDate \in QueryDateInputs,
        batchId \in QueryBatchIdInputs, divisionId \in QueryDivisionIdInputs,
        sessionTypeId \in QueryTypeIdInputs :
       ( /\ last'.op = "getAttendanceReports"
         /\ SessionsWhere(startDate, endDate, batchId, sessionTypeId) # {}
         /\ getAttendanceReports(startDate, endDate, batchId, divisionId, sessionTypeId) )
       => /\ last'.code = 200
          /\ "data" \in DOMAIN last'
          /\ LET st == last'.data
             IN /\ st.byStatus.present + st.byStatus.absent + st.byStatus.late
                     + st.byStatus.excused = st.totalRecords
                /\ \A e \in st.byBatch \cup st.byDivision \cup st.bySessionType :
                     e.present + e.absent + e.late + e.excused = e.totalRecords
                /\ SumTotalRecords(st.byBatch) = st.totalRecords
                /\ SumTotalRecords(st.bySessionType) = st.totalRecords
    ]_vars

\* C25: once a createSessionType or updateSessionType request has been
\* answered, every SessionType has a startTime before its endTime, and no
\* two SessionTypes have intervals [startTime, endTime] that overlap or
\* touch.
C25_SessionTypeIntervalsDisjoint ==
  last.op \in {"createSessionType", "updateSessionType"} /\ last.code \in {200, 201}
    => /\ \A t \in sessionTypes :
            /\ {"startTime", "endTime"} \subseteq DOMAIN t
            /\ ~TimeGeq(t.startTime, t.endTime)
       /\ \A t \in sessionTypes, u \in sessionTypes :
            t # u => \/ ~TimeGeq(t.endTime, u.startTime)
                     \/ ~TimeGeq(u.endTime, t.startTime)

\* C27: a bulkUpdateAttendance call whose attendanceData is empty, whose
\* session does not exist, or in which any entry has no id, no status or a
\* status outside {present, absent, late, excused} is answered 400 or 404
\* and modifies no Attendance row, whatever valid entries come first.
C27_BulkUpdateValidatesFirst ==
  \A sessionId \in SessionIdInputs,
     attendanceData \in AttendanceDataInputs
                          \cup {<<Item(1, "late", ""), Item(0, "late", "")>>},
     actor \in Actors, fail \in 0..2 :
    ~ENABLED
     ( /\ bulkUpdateAttendance(sessionId, attendanceData, actor, fail)
       /\ \/ Len(attendanceData) = 0
          \/ \A x \in sessions : x.id # sessionId
          \/ \E j \in 1..Len(attendanceData) :
               \/ attendanceData[j].id = 0
               \/ attendanceData[j].status
                    \notin {"present", "absent", "late", "excused"}
       /\ ~ ( /\ last'.code \in {400, 404}
              /\ attendance' = attendance ) )

\* a call that names row 1 with a valid status and then row 2 with an
\* invalid one has been rejected, and row 1 is as it was created
C27_Witness ==
  /\ last = Response("bulkUpdateAttendance", 400, "status")
  /\ \E a \in attendance : a.id = 1 /\ a.status = "absent" /\ a.verifiedBy = 0
  /\ \E a \in attendance : a.id = 2 /\ a.sessionId = 1

\* C28: an Attendance row whose verifiedBy is null has status "absent":
\* createSession writes its rows absent with verifiedBy null (308-318),
\* and createAttendanceRecords (903-909), generateAttendanceForBatch
\* (1009-1015), updateAttendance (629-634), bulkUpdateAttendance (709-714)
\* and bulkCreateUpdateFilteredAttendance (1137-1157) write verifiedBy:
\* req.user.id with every status they write
C28_UnverifiedRowsAreAbsent ==
  \A a \in attendance : a.verifiedBy = 0 => a.status = "absent"

\* an unverified absent row stands next to a row marked present by the
\* staff user, after a request that wrote
C28_Witness ==
  /\ \E a \in attendance : a.verifiedBy = 0 /\ a.status = "absent"
  /\ \E a \in attendance : a.status \in {"present", "late"} /\ a.verifiedBy = 3
  /\ last.code \in {200, 201}

\* C29: the result of getAttendanceStats satisfies statusCounts.present +
\* absent + late + excused = totalAttendanceRecords, also when
\* updateAttendance, createAttendanceRecords or deleteSession requests run
\* between its five count queries
C29_StatsCountsAddUp ==
  last.op = "getAttendanceStats" =>
    last.data.statusCounts.present + last.data.statusCounts.absent
      + last.data.statusCounts.late + last.data.statusCounts.excused
    = last.data.totalAttendanceRecords

====
